---- MODULE Spec2Model ----
(***************************************************************************)
(* Voice pool and per-voice signal chain of the Conduit polysynth.         *)
(*                                                                         *)
(* Pitch quantities are exact fixed-point integers:                        *)
(*   - semitone offsets that come from the 14-bit pitch wheel are kept in  *)
(*     units of 1/8192 semitone (BendUnit);                                *)
(*   - oscillator frequencies are kept as their base-2 logarithm, in       *)
(*     units of 1/(100*8192) semitone above MIDI key 0 (PitchUnit per      *)
(*     semitone), so f = f(key 0) * 2^(x / (12*PitchUnit)).                *)
(***************************************************************************)
EXTENDS Integers, Sequences, FiniteSets, TLC

(* ------------------------------------------------------------------ *)
(* Bounds of the model                                                 *)
(* ------------------------------------------------------------------ *)
\* Number of slots of the pool (max_voices is 64 in the source).
NumSlots == 2
\* Peak level of the abstract envelope generators.
EnvMax == 2
\* Number of routing / parameter events in one behaviour.
MaxEvents == 2

(* ------------------------------------------------------------------ *)
(* Program constants                                                   *)
(* ------------------------------------------------------------------ *)
pmSawActive == 1100
pmSawUnisonCount == 1101
pmSawUnisonSpread == 1102
pmSawCoarse == 1103
pmSawFine == 1104
pmSawLevel == 1105
pmPWActive == 1200
pmPWWidth == 1201
pmPWFrequencyDiv == 1202
pmPWCoarse == 1203
pmPWFine == 1204
pmPWLevel == 1205
pmSinActive == 1300
pmSinFrequencyDiv == 1301
pmSinCoarse == 1302
pmSinLevel == 1303
pmNoiseActive == 1400
pmNoiseColor == 1401
pmNoiseLevel == 1402
pmLPFActive == 2000
pmLPFCutoff == 2001
pmLPFResonance == 2002
pmLPFFilterMode == 2003
pmLPFKeytrack == 2004
pmSVFActive == 2100
pmSVFCutoff == 2101
pmSVFResonance == 2102
pmSVFFilterMode == 2103
pmSVFKeytrack == 2104
pmWSActive == 2200
pmWSDrive == 2201
pmWSMode == 2203
pmEnvA == 8000
pmEnvD == 8001
pmEnvS == 8002
pmEnvR == 8003
pmFegToLPFCutoff == 8040
pmFegToSVFCutoff == 8041
pmAegPreFilterGain == 8051
pmVoicePan == 10000
offPmFeg == 10
\* clap/events.h: CLAP_NOTE_EXPRESSION_VOLUME = 0, _PAN = 1, _TUNING = 2
CLAP_NOTE_EXPRESSION_TUNING == 2
\* centre of the 14-bit pitch wheel and its divisor
PitchBendCentre == 8192
BendUnit == 8192
\* hard-coded pitch bend depth in semitones
PitchBendDepth == 2
PitchUnit == 100 * BendUnit
\* reference key of the keytracking term
KeytrackCentre == 69
\* the target of a routing row that routes nothing (0x0100BEEF)
pmNoModTarget == 16826095
\* modulation sources
NONE == 600
LFO1 == 10057
AEG == 10157

Slots == 0 .. (NumSlots - 1)
NoVoice == -1

\* Every parameter bound by attachTo.
AttachedParams ==
    { pmSawUnisonSpread, pmSawCoarse, pmSawFine, pmSawLevel,
      pmPWWidth, pmPWFrequencyDiv, pmPWCoarse, pmPWFine, pmPWLevel,
      pmSinFrequencyDiv, pmSinCoarse, pmSinLevel,
      pmNoiseColor, pmNoiseLevel,
      pmSVFCutoff, pmSVFResonance, pmSVFKeytrack,
      pmLPFCutoff, pmLPFResonance, pmLPFKeytrack,
      pmEnvA, pmEnvD, pmEnvS, pmEnvR,
      pmAegPreFilterGain,
      pmEnvA + offPmFeg, pmEnvD + offPmFeg, pmEnvS + offPmFeg, pmEnvR + offPmFeg,
      pmFegToSVFCutoff, pmFegToLPFCutoff,
      pmWSDrive }

\* Parameters read directly (unmodulated) by start.
SwitchParams ==
    { pmSawActive, pmSawUnisonCount, pmPWActive, pmSinActive, pmNoiseActive,
      pmSVFActive, pmSVFFilterMode, pmWSActive, pmWSMode,
      pmLPFActive, pmLPFFilterMode }

\* Parameter ids of the patch the voices read.
ParamIds == AttachedParams \cup SwitchParams \cup { pmVoicePan }

VARIABLES
    voices,     \* the pool: slot -> voice state
    patch,      \* paramToValue: parameter id -> base value
    mtsMaster,  \* mtsClient && MTS_HasMaster(mtsClient)
    op,         \* the last operation performed, with its arguments and result
    nEvents,    \* routing / parameter events performed so far
    modMatrixConfig,  \* the routing table of the patch: row -> entry
    dataCopyForUI,    \* the members of DataCopyForUI shared with the editor
    audioThread,      \* where the audio thread stands in a multi-step operation
    uiThread,         \* where the editor stands, and what it has read
    svfImpl           \* a StereoSimperSVF on its own: coefficients and integrators

uiVars == << modMatrixConfig, dataCopyForUI, audioThread, uiThread >>

vars == << voices, patch, mtsMaster, op, nEvents, uiVars, svfImpl >>

Clamp(x, lo, hi) == IF x < lo THEN lo ELSE IF x > hi THEN hi ELSE x

\* F applied to the value of x, x being evaluated once
Bind(x, F(_)) == CHOOSE r \in { F(y) : y \in {x} } : TRUE

(* ------------------------------------------------------------------ *)
(* ModulatedValue                                                      *)
(* ------------------------------------------------------------------ *)
\* ModulatedValue::value() of the parameter p bound on voice v, the shared
\* base values being pt: base + internal modulation + external modulation.
\* The two modulations are read through the references attachTo has bound;
\* a reference is << slot of the owning voice, parameter id >> and is read in
\* the maps of v itself.
valueIn(pt, v, p) ==
    pt[p] + v.internalMods[v.internalModRef[p][2]]
          + v.externalMods[v.externalModRef[p][2]]

(* ------------------------------------------------------------------ *)
(* Envelope generators (amplitude and filter)                          *)
(* ------------------------------------------------------------------ *)
EnvSustain == 1

EnvIdle == [stage |-> "idle", lvl |-> 0]

attackFrom == [stage |-> "attack", lvl |-> 0]

EnvProcessBlock(e, gate) ==
    LET g == IF ~gate /\ e.stage \in {"attack", "decay", "sustain"}
             THEN [e EXCEPT !.stage = "release"] ELSE e
    IN  CASE g.stage = "attack" ->
                IF g.lvl + 1 >= EnvMax THEN [stage |-> "decay", lvl |-> EnvMax]
                ELSE [g EXCEPT !.lvl = g.lvl + 1]
          [] g.stage = "decay" ->
                IF g.lvl - 1 <= EnvSustain THEN [stage |-> "sustain", lvl |-> EnvSustain]
                ELSE [g EXCEPT !.lvl = g.lvl - 1]
          [] g.stage = "sustain" -> g
          [] g.stage = "release" ->
                IF g.lvl <= 1 THEN [stage |-> "complete", lvl |-> 0]
                ELSE [g EXCEPT !.lvl = g.lvl - 1]
          [] OTHER -> g

(* ------------------------------------------------------------------ *)
(* Pitch                                                               *)
(* ------------------------------------------------------------------ *)
UniIdx == 0 .. 2

\* baseFrequencyByMidiKey[k], as a logarithm: key k is k semitones above key 0
baseFrequencyByMidiKey(k) == k * PitchUnit

\* MTS_NoteToFrequency: the retuning master's answer (an external table);
\* here every key is a quarter tone sharp of equal temperament
MTS_NoteToFrequency(k, ch) == k * PitchUnit + (PitchUnit \div 2)

\* mul[po], as a logarithm: mul = 2^(po - 3), i.e. (po - 3) octaves
mul(po) == (po - 3) * 12 * PitchUnit

\* The octave parameters of the pulse and of the sine are kept in halves of
\* an octave.
OctaveUnit == 2

\* (int)std::round(x): to the nearest whole octave, halves away from zero
roundOctave(x) ==
    IF x >= 0 THEN (x + 1) \div OctaveUnit ELSE -((1 - x) \div OctaveUnit)

\* a pitch computation that takes the octave index as it comes
recalcPitchOf_octaveUnclamped(pt, mts, v) ==
    LET bf == IF mts THEN MTS_NoteToFrequency(v.key, v.channel)
              ELSE baseFrequencyByMidiKey(Clamp(v.key, 0, 127))
        shared == PitchUnit * v.pitchNoteExpressionValue + 100 * v.pitchBendWheel
        uf(i) == bf + BendUnit * (valueIn(pt, v, pmSawUnisonSpread) * v.sawUniVoiceDetune[i]
                                  + valueIn(pt, v, pmSawFine))
                    + PitchUnit * valueIn(pt, v, pmSawCoarse) + shared
        ppo == roundOctave(valueIn(pt, v, pmPWFrequencyDiv)) + 3
        ppf == bf + mul(ppo) + PitchUnit * valueIn(pt, v, pmPWCoarse)
                  + BendUnit * valueIn(pt, v, pmPWFine) + shared
        spo == roundOctave(valueIn(pt, v, pmSinFrequencyDiv)) + 3
        spf == bf + mul(spo) + PitchUnit * valueIn(pt, v, pmSinCoarse) + shared
    IN  [v EXCEPT
            !.baseFreq = bf,
            !.sawFreq = IF v.sawActive
                        THEN [i \in UniIdx |-> IF i < v.sawUnison THEN uf(i) ELSE v.sawFreq[i]]
                        ELSE v.sawFreq,
            !.pulseFreq = IF v.pulseActive THEN ppf ELSE v.pulseFreq,
            !.pulseWidthSet = IF v.pulseActive THEN valueIn(pt, v, pmPWWidth)
                              ELSE v.pulseWidthSet,
            !.sinFreq = IF v.sinActive THEN spf ELSE v.sinFreq]

\* a pitch lookup that indexes the table with the key as it is
recalcPitchOf_noClamp(pt, mts, v) ==
    [v EXCEPT !.baseFreq = IF mts THEN MTS_NoteToFrequency(v.key, v.channel)
                           ELSE baseFrequencyByMidiKey(v.key)]

recalcPitchOf(pt, mts, v) ==
    LET bf == IF mts THEN MTS_NoteToFrequency(v.key, v.channel)
              ELSE baseFrequencyByMidiKey(Clamp(v.key, 0, 127))
        shared == PitchUnit * v.pitchNoteExpressionValue + 100 * v.pitchBendWheel
        uf(i) == bf + BendUnit * (valueIn(pt, v, pmSawUnisonSpread) * v.sawUniVoiceDetune[i]
                                  + valueIn(pt, v, pmSawFine))
                    + PitchUnit * valueIn(pt, v, pmSawCoarse) + shared
        ppo == Clamp(roundOctave(valueIn(pt, v, pmPWFrequencyDiv)) + 3, 0, 6)
        ppf == bf + mul(ppo) + PitchUnit * valueIn(pt, v, pmPWCoarse)
                  + BendUnit * valueIn(pt, v, pmPWFine) + shared
        spo == Clamp(roundOctave(valueIn(pt, v, pmSinFrequencyDiv)) + 3, 0, 6)
        spf == bf + mul(spo) + PitchUnit * valueIn(pt, v, pmSinCoarse) + shared
    IN  [v EXCEPT
            !.baseFreq = bf,
            !.sawFreq = IF v.sawActive
                        THEN [i \in UniIdx |-> IF i < v.sawUnison THEN uf(i) ELSE v.sawFreq[i]]
                        ELSE v.sawFreq,
            !.pulseFreq = IF v.pulseActive THEN ppf ELSE v.pulseFreq,
            !.pulseWidthSet = IF v.pulseActive THEN valueIn(pt, v, pmPWWidth)
                              ELSE v.pulseWidthSet,
            !.sinFreq = IF v.sinActive THEN spf ELSE v.sinFreq]

recalcPitch(pt, mts, v) ==
    LET F(w) == recalcPitchOf(pt, mts, w) IN Bind(v, F)

(* ------------------------------------------------------------------ *)
(* Filters                                                             *)
(* ------------------------------------------------------------------ *)
\* 4096 * 2^(s/12), rounded down, for the twelve semitones of an octave
SemitoneRatio4096 ==
    << 4096, 4339, 4597, 4870, 5160, 5467, 5792, 6137, 6501, 6888, 7298, 7732 >>

RECURSIVE Pow2(_)
Pow2(n) == IF n <= 0 THEN 1 ELSE 2 * Pow2(n - 1)

\* 440 * 2^((key - 69) / 12) in units of 1/16 Hz, already clamped to
\* [10 Hz, 25000 Hz]
CutoffHz16(key) ==
    IF key > 141 THEN 25000 * 16
    ELSE IF key < -15 THEN 10 * 16
    ELSE LET d == key - 69
             oct == IF d >= 0 THEN d \div 12 ELSE -((11 - d) \div 12)
             s == d - 12 * oct
             a == (440 * 16 * SemitoneRatio4096[s + 1]) \div 4096
             f == IF oct >= 0 THEN a * Pow2(oct) ELSE a \div Pow2(-oct)
         IN  Clamp(f, 10 * 16, 25000 * 16)

\* a setCoeff that takes the resonance as it comes
setCoeff_noClamp(key, res) ==
    [co |-> CutoffHz16(key), k |-> 200 - 2 * res]

\* StereoSimperSVF::setCoeff: the coefficients are a function of the clamped
\* cutoff and of k = 2 - 2 * res (res in hundredths, k in hundredths)
setCoeff(key, res) ==
    [co |-> CutoffHz16(key), k |-> 200 - 2 * Clamp(res, 1, 99)]

\* a coefficient update that resolves the filter switch again
recalcFilterOf_resolve(pt, v) ==
    [v EXCEPT !.svfActive = (pt[pmSVFActive] # 0)]

recalcFilterOf(pt, v) ==
    [v EXCEPT
        !.svfCoeff = IF v.svfActive
                     THEN setCoeff(valueIn(pt, v, pmSVFCutoff),
                                   valueIn(pt, v, pmSVFResonance))
                     ELSE v.svfCoeff,
        !.qfCoeff = IF v.qfPtr # "null"
                    THEN [type |-> v.qfType,
                          cutoff |-> valueIn(pt, v, pmLPFCutoff) - 60,
                          res |-> valueIn(pt, v, pmLPFResonance)]
                    ELSE v.qfCoeff]

recalcFilter(pt, v) ==
    LET F(w) == recalcFilterOf(pt, w) IN Bind(v, F)

(* ------------------------------------------------------------------ *)
(* Voice                                                               *)
(* ------------------------------------------------------------------ *)
\* The voice as constructed: nothing is attached and nothing has sounded on
\* it yet.
InitVoice ==
    [ portid |-> 0, channel |-> 0, key |-> 0, note_id |-> 0,
      active |-> FALSE, gated |-> FALSE,
      sawUnison |-> 0,
      sawActive |-> FALSE, pulseActive |-> FALSE, sinActive |-> FALSE,
      noiseActive |-> FALSE,
      svfMode |-> 0, svfFilterOp |-> "unset", svfActive |-> FALSE,
      ic1eq |-> 0, ic2eq |-> 0,
      svfCoeff |-> [co |-> 0, k |-> 0],
      aeg |-> EnvIdle, feg |-> EnvIdle, aegOutputCache |-> 0,
      outputOS |-> 0, stages |-> << >>,
      sawUniVoiceDetune |-> [i \in UniIdx |-> 0],
      sawUniPan |-> [i \in UniIdx |-> "unset"],
      sawUniLevelNorm |-> [i \in UniIdx |-> 0],
      baseFreq |-> 0,
      sawFreq |-> [i \in UniIdx |-> 0], pulseFreq |-> 0, pulseWidthSet |-> 0,
      sinFreq |-> 0,
      wsPtr |-> "null", wsRegs |-> "none",
      lpfActive |-> FALSE, qfType |-> "none", qfPtr |-> "null",
      qfCoeff |-> [type |-> "none", cutoff |-> 0, res |-> 0],
      externalMods |-> [p \in {} |-> 0],
      internalMods |-> [p \in {} |-> 0],
      internalModRef |-> [p \in {} |-> << >>],
      externalModRef |-> [p \in {} |-> << >>],
      pitchNoteExpressionValue |-> 0, pitchBendWheel |-> 0, mpePitchBend |-> 0,
      polyAT |-> 0, channelAT |-> 0, midi1CC |-> << 0, 0 >> ]

\* an attach that points every external-modulation reference at the map of
\* the first voice of the pool
attachTo_firstVoice(v, s) ==
    [v EXCEPT
        !.externalMods = [p \in AttachedParams |-> 0],
        !.internalMods = [p \in AttachedParams |-> 0],
        !.internalModRef = [p \in AttachedParams |-> << s, p >>],
        !.externalModRef = [p \in AttachedParams |-> << 0, p >>]]

\* attachTo on the voice of pool index s: for every attached parameter both
\* slots are created at 0 and the ModulatedValue's two references are
\* pointed at them
attachTo(v, s) ==
    [v EXCEPT
        !.externalMods = [p \in AttachedParams |-> 0],
        !.internalMods = [p \in AttachedParams |-> 0],
        !.internalModRef = [p \in AttachedParams |-> << s, p >>],
        !.externalModRef = [p \in AttachedParams |-> << s, p >>]]

\* StereoSimperSVF mode enumeration, in declaration order
SvfModeNames == << "LP", "HP", "BP", "NOTCH", "PEAK", "ALL" >>

\* Waveshapers enumeration -> sst::waveshapers::WaveshaperType
WsTypeNames ==
    << "wst_soft", "wst_ojd", "wst_digital", "wst_fwrectify", "wst_westfold", "wst_fuzz" >>

\* LPFTypes enumeration -> sst::filters::FilterType (with its fixed subtype)
LpfTypeNames ==
    << "fut_obxd_4pole", "fut_vintageladder", "fut_k35_lp", "fut_diode",
       "fut_cutoffwarp_lp", "fut_resonancewarp_lp" >>

\* a detune that a single unison voice gets from the loop's lower end
UnisonDetune_lowerEnd(n, i) == IF n = 1 THEN -1 ELSE (2 * i) \div (n - 1) - 1

\* the unison geometry computed by start: the detune 2 * i / (n - 1) - 1 of
\* unison voice i of n (an integer for the counts 1 .. 3 used here); the pan
\* pair is kept as "centre" (L = R = 1) or "spread", the level normalisation
\* 1 / sqrt(n) by its n
UnisonDetune(n, i) == IF n = 1 THEN 0 ELSE (2 * i) \div (n - 1) - 1

\* the pan pair the loop computes from dI = i / (n - 1): not a number when
\* the quotient is taken with n - 1 = 0
UnisonPan(n, i) == IF n - 1 = 0 THEN "nan" ELSE "spread"

\* a start without the branch for a single unison voice: the loop computes
\* the geometry of every count
startSnapshot_loopOnly(pt, v, porti, channeli, keyi, noteidi) ==
    LET n == pt[pmSawUnisonCount]
        mode == pt[pmSVFFilterMode]
    IN  [v EXCEPT
           !.portid = porti, !.channel = channeli, !.key = keyi,
           !.note_id = noteidi,
           !.sawUnison = n,
           !.sawActive = (pt[pmSawActive] # 0),
           !.pulseActive = (pt[pmPWActive] # 0),
           !.sinActive = (pt[pmSinActive] # 0),
           !.noiseActive = (pt[pmNoiseActive] # 0),
           !.svfMode = mode,
           !.svfFilterOp = IF mode \in 0 .. 5 THEN SvfModeNames[mode + 1]
                           ELSE v.svfFilterOp,
           !.svfActive = (pt[pmSVFActive] # 0),
           !.gated = TRUE, !.active = TRUE,
           !.ic1eq = 0, !.ic2eq = 0,
           !.aeg = attackFrom, !.feg = attackFrom,
           !.sawUniVoiceDetune =
               [i \in UniIdx |-> IF i < n THEN UnisonDetune(n, i)
                                 ELSE v.sawUniVoiceDetune[i]],
           !.sawUniPan =
               [i \in UniIdx |-> IF i < n THEN UnisonPan(n, i) ELSE v.sawUniPan[i]],
           !.sawUniLevelNorm =
               [i \in UniIdx |-> IF i < n THEN n ELSE v.sawUniLevelNorm[i]]]

\* a start that leaves the filter integrators of the previous note in place
startSnapshot_keepIntegrators(pt, v, porti, channeli, keyi, noteidi) ==
    LET n == pt[pmSawUnisonCount]
        mode == pt[pmSVFFilterMode]
    IN  [v EXCEPT
           !.portid = porti, !.channel = channeli, !.key = keyi,
           !.note_id = noteidi,
           !.sawUnison = n,
           !.sawActive = (pt[pmSawActive] # 0),
           !.pulseActive = (pt[pmPWActive] # 0),
           !.sinActive = (pt[pmSinActive] # 0),
           !.noiseActive = (pt[pmNoiseActive] # 0),
           !.svfMode = mode,
           !.svfFilterOp = IF mode \in 0 .. 5 THEN SvfModeNames[mode + 1]
                           ELSE v.svfFilterOp,
           !.svfActive = (pt[pmSVFActive] # 0),
           !.gated = TRUE, !.active = TRUE,
           !.aeg = attackFrom, !.feg = attackFrom,
           !.sawUniVoiceDetune =
               [i \in UniIdx |-> IF (n = 1 /\ i = 0) \/ (n # 1 /\ i < n)
                                 THEN UnisonDetune(n, i)
                                 ELSE v.sawUniVoiceDetune[i]],
           !.sawUniPan =
               [i \in UniIdx |-> IF n = 1 /\ i = 0 THEN "centre"
                                 ELSE IF n # 1 /\ i < n THEN UnisonPan(n, i)
                                 ELSE v.sawUniPan[i]],
           !.sawUniLevelNorm =
               [i \in UniIdx |-> IF (n = 1 /\ i = 0) \/ (n # 1 /\ i < n)
                                 THEN n
                                 ELSE v.sawUniLevelNorm[i]]]

\* start, up to and including the unison geometry
startSnapshot(pt, v, porti, channeli, keyi, noteidi) ==
    LET n == pt[pmSawUnisonCount]
        mode == pt[pmSVFFilterMode]
    IN  [v EXCEPT
           !.portid = porti, !.channel = channeli, !.key = keyi,
           !.note_id = noteidi,
           !.sawUnison = n,
           !.sawActive = (pt[pmSawActive] # 0),
           !.pulseActive = (pt[pmPWActive] # 0),
           !.sinActive = (pt[pmSinActive] # 0),
           !.noiseActive = (pt[pmNoiseActive] # 0),
           !.svfMode = mode,
           !.svfFilterOp = IF mode \in 0 .. 5 THEN SvfModeNames[mode + 1]
                           ELSE v.svfFilterOp,
           !.svfActive = (pt[pmSVFActive] # 0),
           !.gated = TRUE, !.active = TRUE,
           !.ic1eq = 0, !.ic2eq = 0,
           !.aeg = attackFrom, !.feg = attackFrom,
           !.sawUniVoiceDetune =
               [i \in UniIdx |-> IF (n = 1 /\ i = 0) \/ (n # 1 /\ i < n)
                                 THEN UnisonDetune(n, i)
                                 ELSE v.sawUniVoiceDetune[i]],
           !.sawUniPan =
               [i \in UniIdx |-> IF n = 1 /\ i = 0 THEN "centre"
                                 ELSE IF n # 1 /\ i < n THEN UnisonPan(n, i)
                                 ELSE v.sawUniPan[i]],
           !.sawUniLevelNorm =
               [i \in UniIdx |-> IF (n = 1 /\ i = 0) \/ (n # 1 /\ i < n)
                                 THEN n
                                 ELSE v.sawUniLevelNorm[i]]]

\* start, from the waveshaper selection on
startStages(pt, v) ==
    LET wsActive == (pt[pmWSActive] # 0)
        wsMode == pt[pmWSMode]
        wsType == IF wsMode \in 0 .. 5 THEN WsTypeNames[wsMode + 1] ELSE "wst_ojd"
        lpfOn == (pt[pmLPFActive] # 0)
        lpfMode == pt[pmLPFFilterMode]
        qft == IF lpfMode \in 0 .. 5 THEN LpfTypeNames[lpfMode + 1] ELSE v.qfType
    IN  [v EXCEPT
           !.wsRegs = IF wsActive THEN wsType ELSE v.wsRegs,
           !.wsPtr = IF wsActive THEN wsType ELSE "null",
           !.lpfActive = lpfOn,
           !.qfCoeff = IF lpfOn THEN [type |-> "none", cutoff |-> 0, res |-> 0]
                       ELSE v.qfCoeff,
           !.qfType = IF lpfOn THEN qft ELSE v.qfType,
           !.qfPtr = IF lpfOn THEN qft ELSE "null"]

start(pt, mts, v, porti, channeli, keyi, noteidi) ==
    LET S1(w) == startSnapshot(pt, w, porti, channeli, keyi, noteidi)
        S2(w) == startStages(pt, w)
    IN  Bind(recalcFilter(pt, recalcPitch(pt, mts, Bind(v, S1))), S2)

\* release that frees the slot at once
release_abrupt(v) == [v EXCEPT !.gated = FALSE, !.active = FALSE]

\* release that also cuts the amplitude envelope
release_cut(v) == [v EXCEPT !.gated = FALSE, !.aeg = [stage |-> "complete", lvl |-> 0]]

\* PolysynthVoice::release
release(v) == [v EXCEPT !.gated = FALSE]

\* envelopes advanced with the gate held high
processEnvelopes_gateStuck(v) ==
    [v EXCEPT !.aeg = EnvProcessBlock(v.aeg, TRUE),
              !.feg = EnvProcessBlock(v.feg, TRUE),
              !.aegOutputCache = EnvProcessBlock(v.aeg, TRUE).lvl,
              !.stages = << "envelopes" >>]

\* processBlock: both envelopes advance by one block; the amplitude
\* envelope's output over the block is kept as the level it arrives at
processEnvelopes(v) ==
    [v EXCEPT !.aeg = EnvProcessBlock(v.aeg, v.gated),
              !.feg = EnvProcessBlock(v.feg, v.gated),
              !.aegOutputCache = EnvProcessBlock(v.aeg, v.gated).lvl,
              !.stages = << "envelopes" >>]

\* processBlock: the filter envelope and the keytracking become the internal
\* modulation of the two cutoffs
processInternalMods(pt, v) ==
    [v EXCEPT
        !.internalMods[pmSVFCutoff] =
            v.feg.lvl * valueIn(pt, v, pmFegToSVFCutoff)
            + valueIn(pt, v, pmSVFKeytrack) * (v.key - KeytrackCentre),
        !.internalMods[pmLPFCutoff] =
            v.feg.lvl * valueIn(pt, v, pmFegToLPFCutoff)
            + valueIn(pt, v, pmLPFKeytrack) * (v.key - KeytrackCentre)]

\* the stage s has run on the block: it joins the record of the stages of
\* this processBlock, in the order in which they ran
Ran(v, s) == [v EXCEPT !.stages = Append(v.stages, s)]

\* one oscillator's loop: its samples are added to the accumulator; every
\* enabled source counts for one unit of signal
addOscillator(v, name) ==
    [v EXCEPT !.outputOS = v.outputOS + 1, !.stages = Append(v.stages, name)]

\* processBlock: each enabled oscillator adds its samples to the cleared
\* accumulator
renderOscillators(v) ==
    LET Clear(w) == Ran([w EXCEPT !.outputOS = 0], "clear")
        Saw(w) == IF w.sawActive
                  THEN IF w.sawUnison > 0 THEN addOscillator(w, "saw") ELSE Ran(w, "saw")
                  ELSE w
        Pulse(w) == IF w.pulseActive THEN addOscillator(w, "pulse") ELSE w
        Sin(w) == IF w.sinActive THEN addOscillator(w, "sin") ELSE w
        Noise(w) == IF w.noiseActive THEN addOscillator(w, "noise") ELSE w
    IN  Bind(Bind(Bind(Bind(Bind(v, Clear), Saw), Pulse), Sin), Noise)

\* processBlock: the pre-filter gain, then the three optional stages; the
\* state-variable filter's integrators move once it has run
renderFilters(v) ==
    LET Gain(w) == Ran(w, "gain")
        Svf(w) == IF w.svfActive
                  THEN Ran([w EXCEPT !.ic1eq = 1, !.ic2eq = 1], "svf")
                  ELSE w
        Ws(w) == IF w.wsPtr # "null" THEN Ran(w, "waveshaper") ELSE w
        Qf(w) == IF w.qfPtr # "null" THEN Ran(w, "quadfilter") ELSE w
    IN  Bind(Bind(Bind(Bind(v, Gain), Svf), Ws), Qf)

\* processBlock: the accumulator is scaled by the amplitude envelope
renderScale(v) ==
    Ran([v EXCEPT !.outputOS = v.outputOS * v.aegOutputCache], "scale")

\* a render that switches the voice off itself once a gated voice has
\* reached its sustain
processRender_selfEnd(v) ==
    LET End(w) == IF w.aeg.stage \in {"sustain", "complete"}
                  THEN [w EXCEPT !.active = FALSE] ELSE w
    IN  Bind(Bind(Bind(Bind(v, renderOscillators), renderFilters), renderScale), End)

\* a render that consumes the external modulation it has read
processRender_consume(v) ==
    LET Consume(w) == [w EXCEPT !.externalMods = [p \in AttachedParams |-> 0]]
    IN  Bind(Bind(Bind(Bind(v, renderOscillators), renderFilters), renderScale), Consume)

\* a render that shapes the signal before the state-variable filter
processRender_shaperFirst(v) ==
    LET Gain(w) == Ran(w, "gain")
        Svf(w) == IF w.svfActive
                  THEN Ran([w EXCEPT !.ic1eq = 1, !.ic2eq = 1], "svf")
                  ELSE w
        Ws(w) == IF w.wsPtr # "null" THEN Ran(w, "waveshaper") ELSE w
        Qf(w) == IF w.qfPtr # "null" THEN Ran(w, "quadfilter") ELSE w
    IN  Bind(Bind(Bind(Bind(Bind(Bind(v, renderOscillators), Gain), Ws), Svf), Qf),
             renderScale)

\* processBlock, from the clearing of the accumulator on
processRender(v) ==
    Bind(Bind(Bind(v, renderOscillators), renderFilters), renderScale)

\* a render that derives the cutoff modulation before it advances the
\* envelopes
processBlock_modsFirst(pt, mts, v) ==
    LET P2(w) == processInternalMods(pt, w)
        Keep(w) == [processEnvelopes(w) EXCEPT !.internalMods = w.internalMods]
        RF(w) == Ran(recalcFilter(pt, w), "recalcFilter")
        RP(w) == Ran(recalcPitch(pt, mts, w), "recalcPitch")
    IN  Bind(Bind(Bind(Bind(Bind(v, P2), Keep), RF), RP), processRender)

\* a render that relies on the filter coefficients start has computed
processBlock_filterOnce(pt, mts, v) ==
    LET P2(w) == processInternalMods(pt, w)
        RP(w) == Ran(recalcPitch(pt, mts, w), "recalcPitch")
    IN  Bind(Bind(Bind(Bind(v, processEnvelopes), P2), RP), processRender)

processBlock(pt, mts, v) ==
    LET P2(w) == processInternalMods(pt, w)
        RF(w) == Ran(recalcFilter(pt, w), "recalcFilter")
        RP(w) == Ran(recalcPitch(pt, mts, w), "recalcPitch")
    IN  Bind(Bind(Bind(Bind(Bind(v, processEnvelopes), P2), RF), RP), processRender)

\* an external modulation that recomputes the pitch at once
applyExternalMod_recalc(v, param, val) ==
    IF param \in DOMAIN v.externalMods
    THEN recalcPitch(patch, mtsMaster, [v EXCEPT !.externalMods[param] = val])
    ELSE v

\* an external modulation stored with the map's subscript operator, which
\* makes the slot it does not find
applyExternalMod_create(v, param, val) ==
    [v EXCEPT !.externalMods =
        [p \in DOMAIN v.externalMods \cup {param} |->
            IF p = param THEN val ELSE v.externalMods[p]]]

applyExternalMod(v, param, val) ==
    IF param \in DOMAIN v.externalMods
    THEN [v EXCEPT !.externalMods[param] = val]
    ELSE v

\* a note expression that stores the tuning but leaves the oscillators alone
receiveNoteExpression_noRecalc(pt, mts, v, expression, val) ==
    IF expression = CLAP_NOTE_EXPRESSION_TUNING
    THEN [v EXCEPT !.pitchNoteExpressionValue = val]
    ELSE v

receiveNoteExpression(pt, mts, v, expression, val) ==
    IF expression = CLAP_NOTE_EXPRESSION_TUNING
    THEN recalcPitch(pt, mts, [v EXCEPT !.pitchNoteExpressionValue = val])
    ELSE v

\* a pitch bend that takes the 14-bit value as it comes, without its centre
setVoiceMIDIPitchBend_uncentred(pt, mts, v, pb14bit) ==
    recalcPitch(pt, mts, [v EXCEPT !.pitchBendWheel = pb14bit * PitchBendDepth])

\* pitchBendWheel and mpePitchBend are kept in units of 1/8192 semitone
setVoiceMIDIPitchBend(pt, mts, v, pb14bit) ==
    LET bv == pb14bit - PitchBendCentre
    IN  recalcPitch(pt, mts, [v EXCEPT !.pitchBendWheel = bv * PitchBendDepth])

setVoiceMIDIMPEChannelPitchBend(pt, mts, v, pb14bit) ==
    LET bv == pb14bit - PitchBendCentre
    IN  recalcPitch(pt, mts, [v EXCEPT !.mpePitchBend = bv])

setVoicePolyphonicParameterModulation(v, parameter, val) ==
    applyExternalMod(v, parameter, val)

setNoteExpression(pt, mts, v, expression, val) ==
    receiveNoteExpression(pt, mts, v, expression, val)

applyPolyphonicAftertouch(v, pat) == [v EXCEPT !.polyAT = pat]

applyChannelPressure(v, pres) == [v EXCEPT !.channelAT = pres]

applyMIDI1CC(v, cc, val) == [v EXCEPT !.midi1CC = << cc, val >>]

(* ------------------------------------------------------------------ *)
(* Voice manager                                                       *)
(* ------------------------------------------------------------------ *)
\* the identity a slot carries
TupleOf(v) == << v.portid, v.channel, v.key, v.note_id >>

\* a lookup that forgets to ask whether the voice is still sounding
VoicesOf_anySlot(vs, h) == { s \in Slots : TupleOf(vs[s]) = h }

\* the slots a handle maps to: the active voices bound to that tuple
VoicesOf(vs, h) == { s \in Slots : vs[s].active /\ TupleOf(vs[s]) = h }

FreeSlots(vs) == { s \in Slots : ~vs[s].active }

\* a voice allocation that steals slot 0 when the pool is full
initializeVoice_steal(vs) ==
    IF { s \in Slots : ~vs[s].active } = {} THEN 0
    ELSE CHOOSE s \in Slots : ~vs[s].active /\ \A t \in Slots : ~vs[t].active => s <= t

\* the pool index of the voice initializeVoice returns: the first free
\* slot in index order, or no voice
initializeVoice(vs) ==
    IF FreeSlots(vs) = {} THEN NoVoice
    ELSE CHOOSE s \in FreeSlots(vs) : \A t \in FreeSlots(vs) : s <= t

Op(name, h, arg, res) == [name |-> name, h |-> h, arg |-> arg, res |-> res]

NoArg == << >>

\* an activate that takes the last free slot of the pool
Activate_lastFree(h) ==
    LET s == IF FreeSlots(voices) = {} THEN NoVoice
             ELSE CHOOSE t \in FreeSlots(voices) : \A u \in FreeSlots(voices) : u <= t
    IN  /\ voices' = IF s = NoVoice THEN voices
                     ELSE [voices EXCEPT ![s] = start(patch, mtsMaster, voices[s],
                                                      h[1], h[2], h[3], h[4])]
        /\ op' = Op("activate", h, NoArg, s)
        /\ UNCHANGED << patch, mtsMaster, nEvents, uiVars, svfImpl >>

\* activate(port, channel, key, noteId): initializeMultipleVoices asks
\* initializeVoice for one voice
Activate(h) ==
    LET s == initializeVoice(voices)
    IN  /\ voices' = IF s = NoVoice THEN voices
                     ELSE [voices EXCEPT ![s] = start(patch, mtsMaster, voices[s],
                                                      h[1], h[2], h[3], h[4])]
        /\ op' = Op("activate", h, NoArg, s)
        /\ UNCHANGED << patch, mtsMaster, nEvents, uiVars, svfImpl >>

\* release(handle): releaseVoice on every voice the handle maps to
releaseVoice(vs, h) ==
    [s \in Slots |-> IF s \in VoicesOf(vs, h) THEN release(vs[s]) ELSE vs[s]]

Release(h) ==
    /\ voices' = releaseVoice(voices, h)
    /\ op' = Op("release", h, NoArg, NoVoice)
    /\ UNCHANGED << patch, mtsMaster, nEvents, uiVars, svfImpl >>

\* a render that runs processBlock on every slot of the pool
renderVoices_everySlot(pt, mts, vs) ==
    [s \in Slots |-> processBlock(pt, mts, vs[s])]

\* renderBlock: every active voice renders one block
renderVoices(pt, mts, vs) ==
    [s \in Slots |-> IF vs[s].active THEN processBlock(pt, mts, vs[s]) ELSE vs[s]]

\* the sum of the blocks of the given slots
RECURSIVE accumulate(_, _)
accumulate(vs, S) ==
    IF S = {} THEN 0
    ELSE LET s == CHOOSE t \in S : TRUE
         IN  vs[s].outputOS + accumulate(vs, S \ {s})

\* renderBlock: the output is the sum of the blocks of the voices rendered
outputOf(vs) == accumulate(vs, { s \in Slots : vs[s].active })

RenderBlock ==
    /\ voices' = renderVoices(patch, mtsMaster, voices)
    /\ op' = Op("renderBlock", << >>, NoArg, outputOf(voices'))
    /\ UNCHANGED << patch, mtsMaster, nEvents, uiVars, svfImpl >>

\* a voice has finished when it is ungated and its amplitude envelope is done
Finished(v) == v.active /\ ~v.gated /\ v.aeg.stage = "complete"

retireFinishedVoices(vs) ==
    [s \in Slots |-> IF Finished(vs[s]) THEN [vs[s] EXCEPT !.active = FALSE] ELSE vs[s]]

RetireFinishedVoices ==
    /\ op' = Op("retire", << >>, NoArg, NoVoice)
    /\ voices' = retireFinishedVoices(voices)
    /\ UNCHANGED << patch, mtsMaster, nEvents, uiVars, svfImpl >>

\* the routing operations: forward to the setter of every voice the handle
\* maps to
RouteTo(vs, h, f(_)) ==
    [s \in Slots |-> IF s \in VoicesOf(vs, h) THEN f(vs[s]) ELSE vs[s]]

Route(name, h, arg, f(_)) ==
    /\ nEvents < MaxEvents
    /\ nEvents' = nEvents + 1
    /\ voices' = RouteTo(voices, h, f)
    /\ op' = Op(name, h, arg, NoVoice)
    /\ UNCHANGED << patch, mtsMaster, uiVars, svfImpl >>

RouteModulation(h, param, val) ==
    LET f(v) == setVoicePolyphonicParameterModulation(v, param, val)
    IN  Route("routeModulation", h, << param, val >>, f)

RoutePitchBend(h, pb) ==
    LET f(v) == setVoiceMIDIPitchBend(patch, mtsMaster, v, pb)
    IN  Route("routePitchBend", h, << pb >>, f)

RouteChannelPitchBend(h, pb) ==
    LET f(v) == setVoiceMIDIMPEChannelPitchBend(patch, mtsMaster, v, pb)
    IN  Route("routeChannelPitchBend", h, << pb >>, f)

RouteNoteExpression(h, kind, val) ==
    LET f(v) == setNoteExpression(patch, mtsMaster, v, kind, val)
    IN  Route("routeNoteExpression", h, << kind, val >>, f)

RouteAftertouch(h, pat) ==
    LET f(v) == applyPolyphonicAftertouch(v, pat)
    IN  Route("routeAftertouch", h, << pat >>, f)

RouteChannelPressure(h, pres) ==
    LET f(v) == applyChannelPressure(v, pres)
    IN  Route("routeChannelPressure", h, << pres >>, f)

RouteCC(h, cc, val) ==
    LET f(v) == applyMIDI1CC(v, cc, val)
    IN  Route("routeCC", h, << cc, val >>, f)

\* the control context changes the base value of a parameter
SetParam(p, val) ==
    /\ nEvents < MaxEvents
    /\ nEvents' = nEvents + 1
    /\ patch[p] # val
    /\ patch' = [patch EXCEPT ![p] = val]
    /\ op' = Op("setParam", << >>, << p, val >>, NoVoice)
    /\ UNCHANGED << voices, mtsMaster, uiVars, svfImpl >>


(* ------------------------------------------------------------------ *)
(* process: the events of a block, then the block                      *)
(* ------------------------------------------------------------------ *)
Event(type, h, arg) == [type |-> type, h |-> h, arg |-> arg]

\* handleInboundEvent: a note on asks the voice manager for a voice, a note
\* off releases, a parameter modulation is routed to the voices of the note
handleInboundEvent(pt, mts, vs, e) ==
    CASE e.type = "noteOn" ->
            LET s == initializeVoice(vs)
            IN  IF s = NoVoice THEN vs
                ELSE [vs EXCEPT ![s] = start(pt, mts, vs[s],
                                             e.h[1], e.h[2], e.h[3], e.h[4])]
      [] e.type = "noteOff" -> releaseVoice(vs, e.h)
      [] e.type = "paramMod" ->
            LET f(v) == setVoicePolyphonicParameterModulation(v, e.arg[1], e.arg[2])
            IN  RouteTo(vs, e.h, f)
      [] OTHER -> vs

\* an event loop that takes the newest event first
RECURSIVE handleInboundEvents_newestFirst(_, _, _, _)
handleInboundEvents_newestFirst(pt, mts, vs, evs) ==
    IF evs = << >> THEN vs
    ELSE handleInboundEvents_newestFirst(
             pt, mts, handleInboundEvent(pt, mts, vs, evs[Len(evs)]),
             SubSeq(evs, 1, Len(evs) - 1))

\* the events of the block, each handled in the order of arrival
RECURSIVE handleInboundEvents(_, _, _, _)
handleInboundEvents(pt, mts, vs, evs) ==
    IF evs = << >> THEN vs
    ELSE handleInboundEvents(pt, mts, handleInboundEvent(pt, mts, vs, Head(evs)),
                             Tail(evs))

\* process(in_events): the events the host hands over with the block are
\* handled, then the block is rendered
Process(evs) ==
    /\ nEvents + Len(evs) <= MaxEvents + 1
    /\ nEvents' = nEvents + Len(evs)
    /\ op' = Op("process", << >>, evs, NoVoice)
    /\ voices' = renderVoices(patch, mtsMaster,
                              handleInboundEvents(patch, mtsMaster, voices, evs))
    /\ UNCHANGED << patch, mtsMaster, uiVars, svfImpl >>

(* ------------------------------------------------------------------ *)
(* StereoSimperSVF                                                     *)
(* ------------------------------------------------------------------ *)
\* The filter's arithmetic in fixed point: FixedOne stands for 1.0 and a
\* product of two quantities is brought back to the scale by fmul. The two
\* lanes of the SSE registers (left and right) go through the same
\* operations; one lane is followed.
FixedOne == 16

fmul(a, b) == (a * b) \div FixedOne

\* the modes step is instantiated for
FilterModes == { "LP", "HP", "BP", "NOTCH", "PEAK", "ALL" }

\* setCoeff, from g and k on: gk = g + k, a1 = 1 / (1 + g * gk),
\* a2 = g * a1, a3 = g * a2, ak = gk * a1; the integrators are not touched
makeCoeff(g, k) ==
    LET gk == g + k
        a1 == (FixedOne * FixedOne) \div (FixedOne + fmul(g, gk))
        a2 == fmul(g, a1)
    IN  [ g |-> g, k |-> k, gk |-> gk, a1 |-> a1, a2 |-> a2,
          a3 |-> fmul(g, a2), ak |-> fmul(gk, a1), ic1eq |-> 0, ic2eq |-> 0 ]

\* StereoSimperSVF::init
init(that) == [that EXCEPT !.ic1eq = 0, !.ic2eq = 0]

\* the intermediate quantities of one step on the input sample vin
stepV3(that, vin) == vin - that.ic2eq
stepV0(that, vin) == fmul(that.a1, stepV3(that, vin)) - fmul(that.ak, that.ic1eq)
stepV1(that, vin) == fmul(that.a2, stepV3(that, vin)) + fmul(that.a1, that.ic1eq)
stepV2(that, vin) ==
    fmul(that.a3, stepV3(that, vin)) + fmul(that.a2, that.ic1eq) + that.ic2eq

\* a step whose band-pass instance leaves the second integrator alone
step_bandPassKeeps(FilterMode, that, vin) ==
    LET v0 == stepV0(that, vin)
        v1 == stepV1(that, vin)
        v2 == stepV2(that, vin)
    IN  [ that |-> [that EXCEPT !.ic1eq = 2 * v1 - that.ic1eq,
                                !.ic2eq = IF FilterMode = "BP" THEN that.ic2eq
                                          ELSE 2 * v2 - that.ic2eq],
          res |-> CASE FilterMode = "LP" -> v2
                    [] FilterMode = "BP" -> v1
                    [] FilterMode = "HP" -> v0
                    [] FilterMode = "NOTCH" -> v2 + v0
                    [] FilterMode = "PEAK" -> v2 - v0
                    [] FilterMode = "ALL" -> v2 + v0 - fmul(that.k, v1) ]

\* step<FilterMode>(that, L, R): the filter after the step, and the sample
\* written back
step(FilterMode, that, vin) ==
    LET v0 == stepV0(that, vin)
        v1 == stepV1(that, vin)
        v2 == stepV2(that, vin)
    IN  [ that |-> [that EXCEPT !.ic1eq = 2 * v1 - that.ic1eq,
                                !.ic2eq = 2 * v2 - that.ic2eq],
          res |-> CASE FilterMode = "LP" -> v2
                    [] FilterMode = "BP" -> v1
                    [] FilterMode = "HP" -> v0
                    [] FilterMode = "NOTCH" -> v2 + v0
                    [] FilterMode = "PEAK" -> v2 - v0
                    [] FilterMode = "ALL" -> v2 + v0 - fmul(that.k, v1) ]

\* one sample goes through the filter in the mode given
SvfStep(FilterMode, vin) ==
    /\ nEvents < MaxEvents
    /\ nEvents' = nEvents + 1
    /\ svfImpl' = step(FilterMode, svfImpl, vin).that
    /\ op' = Op("step", << >>, << FilterMode, vin >>, step(FilterMode, svfImpl, vin).res)
    /\ UNCHANGED << voices, patch, mtsMaster, uiVars >>

(* ------------------------------------------------------------------ *)
(* The copy of the modulation matrix kept for the editor               *)
(* ------------------------------------------------------------------ *)
\* the rows of the table that are followed: the first two of its nModSlots
ModRows == 0 .. 1

\* a row is the tuple modMessage: s1, s2, target, depth
RowFields == 1 .. 4

\* a row as the constructor of ModMatrixConfig leaves it
EmptyRow == << NONE, NONE, pmNoModTarget, 0 >>

\* a row of the copy before anything was copied into it
ZeroRow == << 0, 0, 0, 0 >>

InitUi ==
    /\ modMatrixConfig = [r \in ModRows |-> EmptyRow]
    /\ dataCopyForUI = [ updateCount |-> 0, isProcessing |-> FALSE,
                         modMatrixCopy |-> [r \in ModRows |-> ZeroRow],
                         rescanMatrix |-> 0 ]
    /\ audioThread = [pc |-> "idle", pos |-> 0]
    /\ uiThread = [ pc |-> "idle", pos |-> 0, seen |-> 0,
                    view |-> [r \in ModRows |-> ZeroRow], complete |-> FALSE ]

poolVars == << voices, patch, mtsMaster, op, nEvents >>

\* startProcessing and stopProcessing: the store to isProcessing ...
setProcessing(b) ==
    /\ audioThread.pc = "idle"
    /\ dataCopyForUI.isProcessing # b
    /\ dataCopyForUI.updateCount < MaxEvents
    /\ dataCopyForUI' = [dataCopyForUI EXCEPT !.isProcessing = b]
    /\ audioThread' = [audioThread EXCEPT !.pc = "updateCount"]
    /\ UNCHANGED << poolVars, svfImpl, modMatrixConfig, uiThread >>

\* ... and then the increment of updateCount, an atomic uint32_t (the
\* guard of setProcessing keeps it far from wrapping)
countUpdate ==
    /\ audioThread.pc = "updateCount"
    /\ dataCopyForUI' = [dataCopyForUI EXCEPT
                             !.updateCount = dataCopyForUI.updateCount + 1]
    /\ audioThread' = [audioThread EXCEPT !.pc = "idle"]
    /\ UNCHANGED << poolVars, svfImpl, modMatrixConfig, uiThread >>

\* the row a ModRowMessage carries, in the order of modMessage
RowOf(m) == << m.s1, m.s2, m.tgt, m.depth >>

\* the audio thread takes a ModRowMessage of the editor: the row of the
\* patch's table is replaced and the copy for the editor is to be refreshed
handleModRowMessage(m) ==
    /\ audioThread.pc = "idle"
    /\ dataCopyForUI.rescanMatrix < MaxEvents
    /\ modMatrixConfig' = [modMatrixConfig EXCEPT ![m.row] = RowOf(m)]
    /\ audioThread' = [pc |-> "populateMatrixView", pos |-> 0]
    /\ UNCHANGED << poolVars, svfImpl, dataCopyForUI, uiThread >>

\* the row and the field of a position in a pass over the table
RowAt(pos) == pos \div 4
FieldAt(pos) == (pos % 4) + 1
LastPos == 4 * Cardinality(ModRows) - 1

\* populateMatrixView: the table is copied into modMatrixCopy, a plain array
\* of tuples, one field per store; rescanMatrix is incremented once the pass
\* is over
populateMatrixView ==
    /\ audioThread.pc = "populateMatrixView"
    /\ LET r == RowAt(audioThread.pos)
           f == FieldAt(audioThread.pos)
           done == audioThread.pos = LastPos
       IN  /\ dataCopyForUI' =
                 [dataCopyForUI EXCEPT
                     !.modMatrixCopy[r][f] = modMatrixConfig[r][f],
                     !.rescanMatrix = IF done THEN dataCopyForUI.rescanMatrix + 1
                                      ELSE dataCopyForUI.rescanMatrix]
           /\ audioThread' = IF done THEN [pc |-> "idle", pos |-> 0]
                             ELSE [audioThread EXCEPT !.pos = audioThread.pos + 1]
    /\ UNCHANGED << poolVars, svfImpl, modMatrixConfig, uiThread >>

\* the editor notices that rescanMatrix has moved and starts a pass over
\* the copy
uiRescan ==
    /\ uiThread.pc = "idle"
    /\ uiThread.seen # dataCopyForUI.rescanMatrix
    /\ uiThread' = [uiThread EXCEPT !.pc = "read", !.pos = 0,
                                    !.seen = dataCopyForUI.rescanMatrix,
                                    !.complete = FALSE]
    /\ UNCHANGED << poolVars, svfImpl, modMatrixConfig, dataCopyForUI, audioThread >>

\* the editor loads one field of the copy
uiReadField ==
    /\ uiThread.pc = "read"
    /\ LET r == RowAt(uiThread.pos)
           f == FieldAt(uiThread.pos)
           done == uiThread.pos = LastPos
       IN  uiThread' = [uiThread EXCEPT
                           !.view[r][f] = dataCopyForUI.modMatrixCopy[r][f],
                           !.pos = IF done THEN 0 ELSE uiThread.pos + 1,
                           !.pc = IF done THEN "idle" ELSE "read",
                           !.complete = done]
    /\ UNCHANGED << poolVars, svfImpl, modMatrixConfig, dataCopyForUI, audioThread >>

(* ------------------------------------------------------------------ *)
(* Specifications                                                      *)
(* ------------------------------------------------------------------ *)
\* the patch loaded at construction: one saw with three unison voices
\* through the state-variable filter
InitPatch ==
    [p \in ParamIds |->
        CASE p = pmSawActive -> 1
          [] p = pmSawUnisonCount -> 3
          [] p = pmSawUnisonSpread -> 10
          [] p = pmSVFActive -> 1
          [] p = pmSVFCutoff -> 69
          [] p = pmSVFResonance -> 50
          [] p = pmFegToSVFCutoff -> 12
          [] OTHER -> 0]

Init ==
    /\ voices = [s \in Slots |-> attachTo(InitVoice, s)]
    /\ patch = InitPatch
    /\ mtsMaster = FALSE
    /\ op = Op("init", << >>, NoArg, NoVoice)
    /\ nEvents = 0
    /\ InitUi
    /\ svfImpl = init(makeCoeff(FixedOne, FixedOne))

\* the notes the host plays on the pool
Tuples == { << 0, 0, 60, 1 >>, << 0, 0, 60, 2 >>, << 0, 0, 61, 1 >> }

Next ==
    \/ \E h \in Tuples : Activate(h)
    \/ \E h \in Tuples : Release(h)
    \/ RenderBlock
    \/ RetireFinishedVoices

Spec == Init /\ [][Next]_vars

\* the audio callback keeps running: blocks are rendered and finished voices
\* retired again and again
FairTuples == { << 0, 0, 60, 1 >> }

FairNext ==
    \/ \E h \in FairTuples : Activate(h)
    \/ \E h \in FairTuples : Release(h)
    \/ RenderBlock
    \/ RetireFinishedVoices

FairSpec ==
    Init /\ [][FairNext]_vars /\ WF_vars(RenderBlock) /\ WF_vars(RetireFinishedVoices)

\* one voice at a time, with the events the host and the control context
\* address to it
VoiceTuples == { << 0, 0, 60, 1 >>, << 0, 0, 60, 2 >> }
ModTargets == {pmSawCoarse, pmSVFCutoff, pmVoicePan}
ModValues == {1, 2}
PitchBends == {0}
ExpressionKinds == {0, CLAP_NOTE_EXPRESSION_TUNING}

VoiceActivate(h) == (\A s \in Slots : ~voices[s].active) /\ Activate(h)

VoiceNext ==
    \/ \E h \in VoiceTuples : VoiceActivate(h)
    \/ \E h \in VoiceTuples : Release(h)
    \/ RenderBlock
    \/ RetireFinishedVoices
    \/ \E h \in VoiceTuples, p \in ModTargets, x \in ModValues : RouteModulation(h, p, x)
    \/ \E h \in VoiceTuples, pb \in PitchBends : RoutePitchBend(h, pb)
    \/ \E h \in VoiceTuples, pb \in PitchBends : RouteChannelPitchBend(h, pb)
    \/ \E h \in VoiceTuples, k \in ExpressionKinds, x \in ModValues :
           RouteNoteExpression(h, k, x)
    \/ \E h \in VoiceTuples : RouteAftertouch(h, 64)
    \/ \E h \in VoiceTuples : RouteChannelPressure(h, 64)
    \/ \E h \in VoiceTuples : RouteCC(h, 1, 64)
    \/ \E x \in {1} : SetParam(pmSawCoarse, x)

VoiceSpec == Init /\ [][VoiceNext]_vars

\* one voice at a time, on keys inside and outside the MIDI range, with or
\* without a retuning master, while the control context moves the switches
\* and type selectors that start reads
StartTuples == { << 0, 0, -3, 1 >>, << 0, 0, 60, 1 >>, << 0, 0, 130, 1 >> }

\* the values given to the switches: stages on and off, and 6, which is no
\* member of any of the three six-member enumerations
StartParams ==
    { << pmSVFActive, 0 >>, << pmSVFFilterMode, 6 >>,
      << pmWSActive, 1 >>, << pmWSMode, 6 >>,
      << pmLPFActive, 1 >>, << pmLPFFilterMode, 6 >> }

StartInit ==
    /\ voices = [s \in Slots |-> attachTo(InitVoice, s)]
    /\ patch = InitPatch
    /\ mtsMaster \in BOOLEAN
    /\ op = Op("init", << >>, NoArg, NoVoice)
    /\ nEvents = 0
    /\ InitUi
    /\ svfImpl = init(makeCoeff(FixedOne, FixedOne))

StartNext ==
    \/ \E h \in StartTuples : VoiceActivate(h)
    \/ \E h \in StartTuples : Release(h)
    \/ RenderBlock
    \/ RetireFinishedVoices
    \/ \E pv \in StartParams : SetParam(pv[1], pv[2])

StartSpec == StartInit /\ [][StartNext]_vars

\* the host delivers note and modulation events for two notes; every block
\* handles what was delivered and renders
BlockTuples == { << 0, 0, 60, 1 >>, << 0, 0, 61, 1 >> }

BlockEvents ==
    { Event("noteOn", h, NoArg) : h \in BlockTuples }
    \cup { Event("noteOff", h, NoArg) : h \in BlockTuples }
    \cup { Event("paramMod", h, << pmSVFCutoff, x >>) : h \in BlockTuples, x \in ModValues }

\* the event lists of a block
RECURSIVE SeqsUpTo(_, _)
SeqsUpTo(S, n) ==
    IF n = 0 THEN { << >> }
    ELSE SeqsUpTo(S, n - 1)
         \cup { Append(q, e) : q \in { r \in SeqsUpTo(S, n - 1) : Len(r) = n - 1 }, e \in S }

BlockNext ==
    \/ \E evs \in SeqsUpTo(BlockEvents, MaxEvents) : Process(evs)
    \/ RetireFinishedVoices

BlockSpec == Init /\ [][BlockNext]_vars

\* the audio thread and the editor side by side: the editor sends rows, the
\* audio thread refreshes the copy, the editor reads it back
ModRowMessages ==
    { [row |-> r, s1 |-> LFO1, s2 |-> NONE, tgt |-> pmSVFCutoff, depth |-> 1] : r \in ModRows }
    \cup { [row |-> r, s1 |-> AEG, s2 |-> LFO1, tgt |-> pmSawCoarse, depth |-> 2] : r \in ModRows }

UiNext ==
    \/ \E b \in BOOLEAN : setProcessing(b)
    \/ countUpdate
    \/ \E m \in ModRowMessages : handleModRowMessage(m)
    \/ populateMatrixView
    \/ uiRescan
    \/ uiReadField

UiSpec == Init /\ [][UiNext]_vars

\* a filter alone: any of its coefficient sets, samples of either sign, the
\* mode chosen afresh at every sample
StepGs == { 4, FixedOne }
StepKs == { 8, 24 }
StepSamples == { -FixedOne, FixedOne }

StepInit ==
    /\ voices = [s \in Slots |-> attachTo(InitVoice, s)]
    /\ patch = InitPatch
    /\ mtsMaster = FALSE
    /\ op = Op("init", << >>, NoArg, NoVoice)
    /\ nEvents = 0
    /\ InitUi
    /\ svfImpl \in { makeCoeff(g, k) : g \in StepGs, k \in StepKs }

StepNext == \E m \in FilterModes, vin \in StepSamples : SvfStep(m, vin)

StepSpec == StepInit /\ [][StepNext]_vars

\* one voice at a time while the control context moves the filter
\* parameters: cutoff and resonance far outside their range, the
\* keytracking depths, the quad filter switched on and off and its type
\* changed
FilterTuples == { << 0, 0, 60, 1 >> }

FilterParams ==
    { << pmSVFKeytrack, 1 >>, << pmLPFKeytrack, 1 >>,
      << pmSVFCutoff, -40 >>, << pmSVFCutoff, 200 >>,
      << pmSVFResonance, -50 >>, << pmSVFResonance, 150 >>,
      << pmLPFActive, 1 >>, << pmLPFActive, 0 >>,
      << pmLPFFilterMode, 1 >>, << pmLPFFilterMode, 3 >> }

FilterNext ==
    \/ \E h \in FilterTuples : VoiceActivate(h)
    \/ \E h \in FilterTuples : Release(h)
    \/ RenderBlock
    \/ RetireFinishedVoices
    \/ \E pv \in FilterParams : SetParam(pv[1], pv[2])

FilterSpec == Init /\ [][FilterNext]_vars

\* one voice at a time while the control context moves the unison count
\* and spread and the octaves of the pulse and of the sine (in halves of an
\* octave, far outside -3 .. 3), and the host modulates spread and octave
OscTuples == { << 0, 0, 60, 1 >> }

OscParams ==
    { << pmSawUnisonCount, 0 >>, << pmSawUnisonCount, 1 >>,
      << pmSawUnisonSpread, 50 >>,
      << pmPWActive, 1 >>, << pmSinActive, 1 >>,
      << pmPWFrequencyDiv, 3 >>, << pmPWFrequencyDiv, -19 >>,
      << pmSinFrequencyDiv, -3 >>, << pmSinFrequencyDiv, 19 >> }

OscModTargets == { pmSawUnisonSpread, pmPWFrequencyDiv }
OscModValues == { -40, 40 }

OscNext ==
    \/ \E h \in OscTuples : VoiceActivate(h)
    \/ \E h \in OscTuples : Release(h)
    \/ RenderBlock
    \/ RetireFinishedVoices
    \/ \E pv \in OscParams : SetParam(pv[1], pv[2])
    \/ \E h \in OscTuples, p \in OscModTargets, x \in OscModValues :
           RouteModulation(h, p, x)

OscSpec == Init /\ [][OscNext]_vars

\* one voice at a time while the host sends pitch-wheel and MPE channel
\* bends from both ends, the centre and its neighbours of the 14-bit range
BendTuples == { << 0, 0, 60, 1 >> }

BendValues == { 0, 1, 8191, 8192, 8193, 16383 }

BendNext ==
    \/ \E h \in BendTuples : VoiceActivate(h)
    \/ \E h \in BendTuples : Release(h)
    \/ RenderBlock
    \/ RetireFinishedVoices
    \/ \E h \in BendTuples, pb \in BendValues : RoutePitchBend(h, pb)
    \/ \E h \in BendTuples, pb \in BendValues : RouteChannelPitchBend(h, pb)

BendSpec == Init /\ [][BendNext]_vars

(* ------------------------------------------------------------------ *)
(* Properties of the voice pool                                        *)
(* ------------------------------------------------------------------ *)
SamePCK(h, g) == h[1] = g[1] /\ h[2] = g[2] /\ h[3] = g[3]

\* the voices in their release tail: released, envelope not yet decayed
ReleaseTail(vs) ==
    { s \in Slots : ~vs[s].gated
                    /\ vs[s].aeg.stage \in {"attack", "decay", "sustain", "release"} }

\* C1: an activate issued while every slot is active is refused: it returns
\* no voice and leaves every slot (activity, bound tuple, envelope, all the
\* rest) exactly as it was.
C1_FullPoolRefuses ==
    [][ (op'.name = "activate" /\ FreeSlots(voices) = {})
            => (op'.res = NoVoice /\ voices' = voices) ]_vars

C1_Witness ==
    /\ op.name = "activate" /\ op.res = NoVoice
    /\ \A s \in Slots : voices[s].active

\* C2: a released voice whose envelope has not decayed is still active; no
\* step takes its activity or its identity away or gates it again; and an
\* activate of the same (port, channel, key) with another note id, issued
\* while a slot is free, starts the new note in a slot other than the
\* releasing voice's.
C2_OverlapTakesNewSlot ==
    [][ /\ \A s \in ReleaseTail(voices) :
              /\ voices[s].active
              /\ voices'[s].active /\ ~voices'[s].gated
              /\ TupleOf(voices'[s]) = TupleOf(voices[s])
        /\ (/\ op'.name = "activate"
            /\ FreeSlots(voices) # {}
            /\ \E s \in ReleaseTail(voices) :
                   SamePCK(TupleOf(voices[s]), op'.h) /\ voices[s].note_id # op'.h[4])
           => /\ op'.res \in Slots \ ReleaseTail(voices)
              /\ TupleOf(voices'[op'.res]) = op'.h
              /\ \A s \in ReleaseTail(voices) : voices'[s] = voices[s] ]_vars

C2_Witness ==
    /\ op.name = "activate" /\ op.res \in Slots
    /\ \E s \in ReleaseTail(voices) :
          /\ s # op.res
          /\ voices[s].active
          /\ SamePCK(TupleOf(voices[s]), op.h)
          /\ voices[s].note_id # op.h[4]
          /\ TupleOf(voices[op.res]) = op.h

\* C3 (as claimed): no two active voices carry the same
\* (port, channel, key, noteIdentifier) tuple.
C3_UniqueTuple ==
    \A s, t \in Slots :
        (s # t /\ voices[s].active /\ voices[t].active)
            => TupleOf(voices[s]) # TupleOf(voices[t])

\* C4: a voice goes from active to inactive only in the retire step, and only
\* when it is ungated and its amplitude envelope is complete; activate only
\* ever starts a slot that is inactive.
C4_RetireOnlyWhenDecayed ==
    [][ /\ \A s \in Slots :
              (voices[s].active /\ ~voices'[s].active)
                  => /\ op'.name = "retire"
                     /\ ~voices[s].gated
                     /\ voices[s].aeg.stage = "complete"
        /\ (op'.name = "activate" /\ op'.res # NoVoice) => ~voices[op'.res].active ]_vars

C4_Witness ==
    /\ op.name = "retire"
    /\ \E s \in Slots : ~voices[s].active /\ voices[s].aeg.stage = "complete"

\* C5: release sets gated to false on the voices the handle maps to and
\* changes nothing else; the set of free slots is the same after it.
C5_ReleaseOnlyUngates ==
    [][ op'.name = "release"
            => /\ \A s \in Slots :
                     voices'[s] = IF voices[s].active /\ TupleOf(voices[s]) = op'.h
                                  THEN [voices[s] EXCEPT !.gated = FALSE]
                                  ELSE voices[s]
               /\ FreeSlots(voices') = FreeSlots(voices) ]_vars

C5_Witness ==
    /\ op.name = "release"
    /\ \E s \in Slots :
          /\ voices[s].active /\ ~voices[s].gated
          /\ TupleOf(voices[s]) = op.h
          /\ voices[s].aeg.stage \in {"attack", "decay", "sustain"}

\* C6: while blocks keep being rendered and finished voices retired, every
\* released voice eventually becomes inactive, i.e. its slot is free again.
C6_ReleasedEventuallyFree ==
    \A s \in Slots :
        (voices[s].active /\ ~voices[s].gated) ~> (s \in FreeSlots(voices))

C6_Witness ==
    \E s \in FreeSlots(voices) :
        ~voices[s].gated /\ voices[s].aeg.stage = "complete" /\ voices[s].aeg.lvl = 0

(* ------------------------------------------------------------------ *)
(* Properties of routing and of the modulation slots                   *)
(* ------------------------------------------------------------------ *)
RouteNames ==
    { "routeModulation", "routePitchBend", "routeChannelPitchBend",
      "routeNoteExpression", "routeAftertouch", "routeChannelPressure", "routeCC" }

\* the steps in which a voice runs recalcFilter
FilterRecalcNames == { "activate", "renderBlock" }

\* the steps in which a voice may run recalcPitch
PitchRecalcNames ==
    { "activate", "renderBlock", "routeNoteExpression", "routePitchBend",
      "routeChannelPitchBend" }

\* the oscillator frequencies and the filter coefficients of a voice
Frequencies(v) == << v.sawFreq, v.pulseFreq, v.sinFreq >>
Coefficients(v) == << v.svfCoeff, v.qfCoeff >>

\* the oscillators of v run at the frequencies its present inputs call for
PitchFresh(pt, mts, v) == recalcPitch(pt, mts, v) = v

\* some active voice is bound to the tuple h
Sounding(vs, h) == \E s \in Slots : vs[s].active /\ TupleOf(vs[s]) = h

\* C7: a routing operation whose handle maps to no active voice changes no
\* voice at all (neither a retired voice still carrying that tuple nor the
\* voice now sounding in the slot).
C7_StaleRouteIsNoop ==
    [][ (op'.name \in RouteNames /\ ~Sounding(voices, op'.h))
            => voices' = voices ]_vars

C7_Witness ==
    /\ op.name \in RouteNames
    /\ ~Sounding(voices, op.h)
    /\ \E s \in Slots :
          /\ ~voices[s].active
          /\ TupleOf(voices[s]) = op.h
          /\ voices[s].aeg.stage = "complete"

\* C8 (as claimed): between two blocks no event makes a parameter's pending
\* modulation audible: apart from processBlock (and start), a step moves an
\* oscillator frequency only by what the event itself adds to the pitch
\* (tuning expression, pitch wheel), and leaves the filter coefficients alone.
\* Stated for the base values as loaded.
C8_Orig ==
    [][ (op'.name \notin FilterRecalcNames /\ patch = InitPatch)
            => \A s \in Slots :
                 LET v == voices[s]
                     w == voices'[s]
                     d == PitchUnit * (w.pitchNoteExpressionValue
                                         - v.pitchNoteExpressionValue)
                          + 100 * (w.pitchBendWheel - v.pitchBendWheel)
                 IN  /\ Coefficients(w) = Coefficients(v)
                     /\ v.active /\ v.sawActive
                          => \A i \in UniIdx :
                                i < v.sawUnison => w.sawFreq[i] = v.sawFreq[i] + d ]_vars

\* C8 (amended): applyExternalMod changes nothing but external-modulation
\* slots; filter coefficients change only in processBlock and start;
\* oscillator frequencies change only in the steps that run recalcPitch:
\* processBlock, start, a note expression and the two pitch-bend setters.
C8_ModAppliesAtNextRecalc ==
    [][ \A s \in Slots :
          /\ op'.name = "routeModulation"
                => voices'[s] = [voices[s] EXCEPT
                                    !.externalMods = voices'[s].externalMods]
          /\ op'.name \notin FilterRecalcNames
                => Coefficients(voices'[s]) = Coefficients(voices[s])
          /\ op'.name \notin PitchRecalcNames
                => Frequencies(voices'[s]) = Frequencies(voices[s]) ]_vars

C8_Witness ==
    /\ op.name = "routeModulation"
    /\ op.arg[1] = pmSawCoarse
    /\ \E s \in VoicesOf(voices, op.h) :
          /\ voices[s].externalMods[pmSawCoarse] = op.arg[2]
          /\ ~PitchFresh(patch, mtsMaster, voices[s])

\* C9: when a block is rendered right after applyExternalMod(P, V) on a bound
\* parameter, the value then read for P is base(P) + V + internalMod(P), and
\* the render has left the external-modulation slots as they were.
C9_ExternalModRoundTrip ==
    [][ (op.name = "routeModulation" /\ op'.name = "renderBlock"
            /\ op.arg[1] \in AttachedParams)
            => \A s \in VoicesOf(voices, op.h) :
                 /\ valueIn(patch', voices'[s], op.arg[1])
                      = patch'[op.arg[1]] + op.arg[2]
                        + voices'[s].internalMods[op.arg[1]]
                 /\ voices'[s].externalMods = voices[s].externalMods ]_vars

C9_Witness ==
    /\ op.name = "renderBlock"
    /\ \E s \in Slots :
          /\ voices[s].active
          /\ voices[s].externalMods[pmSVFCutoff] # 0
          /\ voices[s].internalMods[pmSVFCutoff] # 0
          /\ valueIn(patch, voices[s], pmSVFCutoff)
               = patch[pmSVFCutoff] + voices[s].externalMods[pmSVFCutoff]
                 + voices[s].internalMods[pmSVFCutoff]

\* C10: a tuning note expression stores its value as the pitch offset of the
\* addressed voice, leaves the oscillators running at the frequencies the
\* voice's inputs now call for, and changes nothing but the offset and the
\* frequencies; an expression of any other kind changes no voice.
C10_NoteExpression ==
    [][ op'.name = "routeNoteExpression"
            => \A s \in Slots :
                 IF s \in VoicesOf(voices, op'.h)
                    /\ op'.arg[1] = CLAP_NOTE_EXPRESSION_TUNING
                 THEN /\ voices'[s].pitchNoteExpressionValue = op'.arg[2]
                      /\ PitchFresh(patch', mtsMaster', voices'[s])
                      /\ voices'[s] = [voices[s] EXCEPT
                            !.pitchNoteExpressionValue = op'.arg[2],
                            !.baseFreq = voices'[s].baseFreq,
                            !.sawFreq = voices'[s].sawFreq,
                            !.pulseFreq = voices'[s].pulseFreq,
                            !.pulseWidthSet = voices'[s].pulseWidthSet,
                            !.sinFreq = voices'[s].sinFreq]
                 ELSE voices'[s] = voices[s] ]_vars

C10_Witness ==
    /\ op.name = "routeNoteExpression"
    /\ op.arg[1] = CLAP_NOTE_EXPRESSION_TUNING
    /\ \E s \in VoicesOf(voices, op.h) :
          /\ voices[s].pitchNoteExpressionValue = op.arg[2]
          /\ voices[s].externalMods[pmSawCoarse] # 0
          /\ voices[s].sawFreq[0] =
                baseFrequencyByMidiKey(voices[s].key)
                + BendUnit * (patch[pmSawUnisonSpread] * voices[s].sawUniVoiceDetune[0])
                + PitchUnit * (patch[pmSawCoarse] + voices[s].externalMods[pmSawCoarse]
                               + op.arg[2])

(* ------------------------------------------------------------------ *)
(* Properties of activate, renderBlock and start                       *)
(* ------------------------------------------------------------------ *)
\* C14: an activate issued while a slot is free takes the free slot of lowest
\* index, records exactly the given (port, channel, key, noteId) on it and
\* leaves it as Voice::start leaves it; every other slot is unchanged.
C14_ActivateBindsLowestFree ==
    [][ (op'.name = "activate" /\ FreeSlots(voices) # {})
            => /\ op'.res \in FreeSlots(voices)
               /\ \A t \in FreeSlots(voices) : op'.res <= t
               /\ TupleOf(voices'[op'.res]) = op'.h
               /\ voices'[op'.res] =
                      start(patch, mtsMaster, voices[op'.res],
                            op'.h[1], op'.h[2], op'.h[3], op'.h[4])
               /\ \A t \in Slots \ {op'.res} : voices'[t] = voices[t] ]_vars

C14_Witness ==
    /\ op.name = "activate" /\ op.res \in Slots
    /\ TupleOf(voices[op.res]) = op.h
    /\ voices[op.res].aeg = attackFrom
    /\ \E t \in FreeSlots(voices) : op.res < t

\* C15: a renderBlock runs processBlock exactly once on every slot that is
\* active and leaves every inactive slot untouched; its output is the sum of
\* the blocks of exactly the active voices, and silence when there is none.
C15_RenderSumsActive ==
    [][ op'.name = "renderBlock"
            => /\ \A s \in Slots :
                     voices'[s] = IF voices[s].active
                                  THEN processBlock(patch, mtsMaster, voices[s])
                                  ELSE voices[s]
               /\ op'.res = accumulate(voices', { s \in Slots : voices[s].active })
               /\ (\A s \in Slots : ~voices[s].active) => op'.res = 0 ]_vars

C15_Witness ==
    /\ op.name = "renderBlock"
    /\ \E s, t \in Slots :
          /\ s # t
          /\ voices[s].active /\ voices[s].outputOS > 0
          /\ voices[t].active /\ voices[t].outputOS > 0
          /\ voices[s].outputOS # voices[t].outputOS
          /\ op.res = voices[s].outputOS + voices[t].outputOS

\* C18: whatever the slot held before, the voice activate has just started
\* is active and gated, the two integrator states of its state-variable
\* filter are zero, and both envelopes are in their attack segment at
\* level 0.
C18_StartResets ==
    [][ (op'.name = "activate" /\ op'.res # NoVoice)
            => LET w == voices'[op'.res]
               IN  /\ w.active /\ w.gated
                   /\ w.ic1eq = 0 /\ w.ic2eq = 0
                   /\ w.aeg = [stage |-> "attack", lvl |-> 0]
                   /\ w.feg = [stage |-> "attack", lvl |-> 0] ]_vars

\* the slot just started has sounded a note before (its last block ran the
\* state-variable filter) and has been reset
C18_Witness ==
    /\ op.name = "activate" /\ op.res \in Slots
    /\ "svf" \in { voices[op.res].stages[i] : i \in DOMAIN voices[op.res].stages }
    /\ voices[op.res].active /\ voices[op.res].gated
    /\ voices[op.res].ic1eq = 0
    /\ voices[op.res].aeg.stage = "attack"

(* ------------------------------------------------------------------ *)
(* Properties of the ModulatedValue bindings                           *)
(* ------------------------------------------------------------------ *)
\* C20: in every state, for every voice and every parameter attached by
\* attachTo, the internal and the external reference of the parameter's
\* ModulatedValue point at that voice's own slot for that parameter id (so
\* no operation has moved them); and at construction both slots hold 0.
C20_BindingFixed ==
    \A s \in Slots :
        /\ DOMAIN voices[s].internalModRef = AttachedParams
        /\ DOMAIN voices[s].externalModRef = AttachedParams
        /\ DOMAIN voices[s].internalMods = AttachedParams
        /\ DOMAIN voices[s].externalMods = AttachedParams
        /\ \A p \in AttachedParams :
              /\ voices[s].internalModRef[p] = << s, p >>
              /\ voices[s].externalModRef[p] = << s, p >>
              /\ op.name = "init"
                    => voices[s].internalMods[p] = 0 /\ voices[s].externalMods[p] = 0

\* a released voice that has rendered with both modulations of its filter
\* cutoff in use, its references still its own
C20_Witness ==
    \E s \in Slots :
        /\ voices[s].active /\ ~voices[s].gated
        /\ voices[s].externalMods[pmSVFCutoff] # 0
        /\ voices[s].internalMods[pmSVFCutoff] # 0
        /\ voices[s].externalModRef[pmSVFCutoff] = << s, pmSVFCutoff >>
        /\ voices[s].internalModRef[pmSVFCutoff] = << s, pmSVFCutoff >>
        /\ voices[s].externalMods[pmSawCoarse] = 0

(* ------------------------------------------------------------------ *)
(* Properties of the per-note stage selection and of the block render  *)
(* ------------------------------------------------------------------ *)
\* the members of the three type enumerations start switches on
RecognisedModes == 0 .. 5

\* C13 (as claimed): when start reads a state-variable filter mode, a
\* waveshaper type or a quad-filter type that is no member of its
\* enumeration, the stage concerned is a passthrough for that note: it is
\* either not run at all or run with a function that leaves the samples
\* unchanged, never with the previous note's function or type, a substitute
\* type or an unset function.
C13_UnrecognisedIsPassthrough ==
    [][ (op'.name = "activate" /\ op'.res # NoVoice)
            => LET w == voices'[op'.res]
               IN  /\ (patch[pmSVFFilterMode] \notin RecognisedModes /\ w.svfActive)
                         => w.svfFilterOp = "passthrough"
                   /\ (patch[pmWSMode] \notin RecognisedModes /\ patch[pmWSActive] # 0)
                         => w.wsPtr \in {"null", "passthrough"}
                   /\ (patch[pmLPFFilterMode] \notin RecognisedModes /\ w.lpfActive)
                         => w.qfPtr \in {"null", "passthrough"} ]_vars

\* C16: without a retuning master the base frequency of every voice that has
\* been started is an entry of the equal-tempered table at an index within
\* 0 .. 127: entry 0 for a negative key, entry 127 for a key above 127, the
\* key's own entry otherwise.
C16_PitchLookupClamped ==
    \A s \in Slots :
        (voices[s].active /\ ~mtsMaster)
            => \E k \in 0 .. 127 :
                  /\ voices[s].baseFreq = baseFrequencyByMidiKey(k)
                  /\ voices[s].key < 0 => k = 0
                  /\ voices[s].key > 127 => k = 127
                  /\ voices[s].key \in 0 .. 127 => k = voices[s].key

C16_Witness ==
    /\ ~mtsMaster
    /\ op.name = "renderBlock"
    /\ \E s \in Slots :
          /\ voices[s].active /\ voices[s].key > 127
          /\ voices[s].baseFreq = baseFrequencyByMidiKey(127)

\* the stages a processBlock must run on the voice v, in order
OptStage(on, name) == IF on THEN << name >> ELSE << >>

StagesInOrder(v) ==
    << "envelopes", "recalcFilter", "recalcPitch", "clear" >>
    \o OptStage(v.sawActive, "saw") \o OptStage(v.pulseActive, "pulse")
    \o OptStage(v.sinActive, "sin") \o OptStage(v.noiseActive, "noise")
    \o << "gain" >>
    \o OptStage(v.svfActive, "svf")
    \o OptStage(v.wsPtr # "null", "waveshaper")
    \o OptStage(v.qfPtr # "null", "quadfilter")
    \o << "scale" >>

\* C17: the stages run by the processBlock of a voice are, in this order and
\* each once: envelopes, coefficient and pitch recomputation, the enabled
\* oscillators into the cleared accumulator, the pre-filter gain, the
\* state-variable filter, the waveshaper and the quad filter where enabled,
\* the scaling by the amplitude envelope; a disabled stage does not run. The
\* recomputed coefficients are those of the envelopes just advanced.
C17_StageOrder ==
    [][ op'.name = "renderBlock"
            => \A s \in Slots :
                  voices[s].active
                     => /\ voices'[s].stages = StagesInOrder(voices[s])
                        /\ voices'[s].feg = EnvProcessBlock(voices[s].feg, voices[s].gated)
                        /\ voices'[s].svfActive
                              => voices'[s].svfCoeff =
                                    setCoeff(valueIn(patch, voices'[s], pmSVFCutoff),
                                             valueIn(patch, voices'[s], pmSVFResonance)) ]_vars

\* a block of a voice with all three optional stages switched on
C17_Witness ==
    /\ op.name = "renderBlock"
    /\ \E s \in Slots :
          /\ voices[s].active
          /\ voices[s].svfActive /\ voices[s].wsPtr # "null" /\ voices[s].qfPtr # "null"
          /\ voices[s].stages =
                << "envelopes", "recalcFilter", "recalcPitch", "clear", "saw", "gain",
                   "svf", "waveshaper", "quadfilter", "scale" >>

\* what start has resolved for the note
PerNote(v) ==
    << v.sawUnison, v.sawActive, v.pulseActive, v.sinActive, v.noiseActive,
       v.svfActive, v.svfMode, v.svfFilterOp, v.wsPtr, v.lpfActive, v.qfType, v.qfPtr >>

\* C19: the per-note constants of a voice change in no step but the activate
\* that starts that voice: renders, releases, retirements and parameter
\* changes made while the note sounds leave them as start resolved them.
C19_PerNoteConstants ==
    [][ \A s \in Slots :
          (op'.name # "activate" \/ op'.res # s)
              => PerNote(voices'[s]) = PerNote(voices[s]) ]_vars

\* a voice still filtering after the filter switch of the patch was turned off
C19_Witness ==
    /\ op.name = "renderBlock"
    /\ patch[pmSVFActive] = 0
    /\ \E s \in Slots :
          /\ voices[s].active /\ voices[s].svfActive
          /\ voices[s].ic1eq # 0

(* ------------------------------------------------------------------ *)
(* Properties of the events of a block                                 *)
(* ------------------------------------------------------------------ *)
\* the positions of the note ons in an event list
NoteOns(evs) == { i \in DOMAIN evs : evs[i].type = "noteOn" }

\* the position of the event that starts a voice in slot s when the list evs
\* is handled on the pool vs: 0 for a voice already sounding; for the r-th
\* free slot the r-th note on; past the end of the list if there is none
StartIdx(vs, evs, s) ==
    IF vs[s].active THEN 0
    ELSE LET r == Cardinality({ t \in FreeSlots(vs) : t < s })
         IN  IF Cardinality(NoteOns(evs)) <= r THEN Len(evs) + 1
             ELSE CHOOSE i \in NoteOns(evs) :
                      Cardinality({ j \in NoteOns(evs) : j < i }) = r

\* the largest member of a non-empty set of positions
Latest(A) == CHOOSE i \in A : \A j \in A : j <= i

\* C11: after process every slot is as if exactly the events addressed to its
\* voice had been applied to it, in arrival order, before the block was
\* rendered: the voice carries the tuple it had or was started with, its
\* external modulation is the value of the last modulation event addressed
\* to it after it was started (unchanged when there is none, whatever was
\* sent to other voices), it is ungated exactly when a note off addressed to
\* it arrived after its start, and the block was rendered from that state:
\* the filter envelope advanced once under that gate and the filter
\* coefficients are those of that modulation. A slot no event starts and
\* that was not sounding is unchanged.
C11_EventsInOrderBeforeRender ==
    [][ op'.name = "process"
            => \A s \in Slots :
                 LET evs == op'.arg
                     at == StartIdx(voices, evs, s)
                     started == at \in DOMAIN evs
                     h == IF started THEN evs[at].h ELSE TupleOf(voices[s])
                     mine(type) == { i \in DOMAIN evs :
                                       i > at /\ evs[i].type = type /\ evs[i].h = h }
                     mods == { i \in mine("paramMod") : evs[i].arg[1] = pmSVFCutoff }
                     gate == IF mine("noteOff") # {} THEN FALSE
                             ELSE IF started THEN TRUE ELSE voices[s].gated
                 IN  IF ~voices[s].active /\ ~started
                     THEN voices'[s] = voices[s]
                     ELSE /\ voices'[s].active
                          /\ TupleOf(voices'[s]) = h
                          /\ voices'[s].externalMods[pmSVFCutoff] =
                                IF mods = {} THEN voices[s].externalMods[pmSVFCutoff]
                                ELSE evs[Latest(mods)].arg[2]
                          /\ voices'[s].gated = gate
                          /\ voices'[s].feg =
                                EnvProcessBlock(IF started THEN attackFrom
                                                ELSE voices[s].feg, gate)
                          /\ voices'[s].svfActive
                                => voices'[s].svfCoeff =
                                      setCoeff(valueIn(patch, voices'[s], pmSVFCutoff),
                                               valueIn(patch, voices'[s], pmSVFResonance))
    ]_vars

\* a block with two modulations of the same parameter of the same sounding
\* voice, of different values: the voice holds the second
C11_Witness ==
    /\ op.name = "process"
    /\ Len(op.arg) = 2
    /\ op.arg[1].type = "paramMod" /\ op.arg[2].type = "paramMod"
    /\ op.arg[1].h = op.arg[2].h
    /\ op.arg[1].arg[2] # op.arg[2].arg[2]
    /\ \E s \in Slots :
          /\ voices[s].active /\ TupleOf(voices[s]) = op.arg[1].h
          /\ voices[s].externalMods[pmSVFCutoff] = op.arg[2].arg[2]
          /\ "svf" \in { voices[s].stages[i] : i \in DOMAIN voices[s].stages }

(* ------------------------------------------------------------------ *)
(* Properties of the values shared between the two contexts            *)
(* ------------------------------------------------------------------ *)
\* the rows that were ever put into the table as a whole
WholeRows == { ZeroRow, EmptyRow } \cup { RowOf(m) : m \in ModRowMessages }

C21_StepStateModeFree ==
    [][op'.name = "step" =>
         LET vin == op'.arg[2]
             v0 == stepV0(svfImpl, vin)
             v1 == stepV1(svfImpl, vin)
             v2 == stepV2(svfImpl, vin)
             outs == [ LP |-> v2, HP |-> v0, BP |-> v1, NOTCH |-> v2 + v0,
                       PEAK |-> v2 - v0, ALL |-> v2 + v0 - fmul(svfImpl.k, v1) ]
         IN  /\ \A m \in FilterModes : step(m, svfImpl, vin).that = svfImpl'
             /\ \A m \in FilterModes : step(m, svfImpl, vin).res = outs[m]
             /\ op'.res = outs[op'.arg[1]]
             /\ svfImpl'.ic1eq = 2 * v1 - svfImpl.ic1eq
             /\ svfImpl'.ic2eq = 2 * v2 - svfImpl.ic2eq]_vars

\* a second sample has gone through a filter whose integrators have moved,
\* in a mode other than the first one's, and the six outputs are not all equal
C21_Witness ==
    /\ op.name = "step"
    /\ nEvents = 2
    /\ op.arg[1] = "ALL"
    /\ svfImpl.ic1eq # 0
    /\ svfImpl.ic2eq # 0
    /\ op.res # 0

(* ------------------------------------------------------------------ *)
(* Properties of the filters of a voice                                *)
(* ------------------------------------------------------------------ *)
\* the position of the stage in the record of the stages of a block, or 0
StagePos(v, name) ==
    IF \E i \in 1 .. Len(v.stages) : v.stages[i] = name
    THEN CHOOSE i \in 1 .. Len(v.stages) : v.stages[i] = name
    ELSE 0

\* C22: in every block a voice renders, the internal modulation of the two
\* cutoffs is the filter envelope's output of that block times the depth
\* parameter plus the keytracking depth times (key - 69), and the filter
\* coefficients of the block are computed from the cutoffs so modulated.
C22_CutoffModulation ==
    [][op'.name = "renderBlock" =>
         \A s \in Slots : voices[s].active =>
             LET v == voices[s]
                 w == voices'[s]
                 fegOut == EnvProcessBlock(v.feg, v.gated).lvl
                 ext(p) == v.externalMods[p]
                 svfMod == fegOut * (patch[pmFegToSVFCutoff] + ext(pmFegToSVFCutoff))
                           + (patch[pmSVFKeytrack] + ext(pmSVFKeytrack)) * (v.key - 69)
                 lpfMod == fegOut * (patch[pmFegToLPFCutoff] + ext(pmFegToLPFCutoff))
                           + (patch[pmLPFKeytrack] + ext(pmLPFKeytrack)) * (v.key - 69)
             IN  /\ w.feg.lvl = fegOut
                 /\ w.internalMods[pmSVFCutoff] = svfMod
                 /\ w.internalMods[pmLPFCutoff] = lpfMod
                 /\ v.svfActive =>
                        w.svfCoeff.co =
                            CutoffHz16(patch[pmSVFCutoff] + svfMod + ext(pmSVFCutoff))
                 /\ v.qfPtr # "null" =>
                        w.qfCoeff.cutoff =
                            patch[pmLPFCutoff] + lpfMod + ext(pmLPFCutoff) - 60]_vars

\* a block has been rendered in which the envelope has moved and both terms
\* of the modulation of the state-variable filter's cutoff are at work
C22_Witness ==
    /\ op.name = "renderBlock"
    /\ \E s \in Slots :
          /\ voices[s].active
          /\ voices[s].svfActive
          /\ voices[s].feg.lvl = EnvMax
          /\ patch[pmSVFKeytrack] # 0
          /\ voices[s].key # 69
          /\ voices[s].internalMods[pmSVFCutoff] = EnvMax * 12 - 9

\* C25: whatever cutoff key and resonance reach it, setCoeff computes
\* coefficients, from the resonance clamped to [0.01, 0.99] (k within
\* [0.02, 1.98]; resonance and k are in hundredths) and from the cutoff
\* frequency clamped to [10 Hz, 25000 Hz] (in sixteenths of a hertz).
C25_CoefficientsClamped ==
    [][op'.name \in {"activate", "renderBlock"} =>
         \A s \in Slots :
             (voices'[s].active /\ voices'[s].svfActive
              /\ (op'.name = "activate" => op'.res = s)) =>
                 LET w == voices'[s]
                     key == patch[pmSVFCutoff] + w.internalMods[pmSVFCutoff]
                            + w.externalMods[pmSVFCutoff]
                     res == patch[pmSVFResonance] + w.internalMods[pmSVFResonance]
                            + w.externalMods[pmSVFResonance]
                     used == IF res < 1 THEN 1 ELSE IF res > 99 THEN 99 ELSE res
                 IN  /\ w.svfCoeff.k = 200 - 2 * used
                     /\ w.svfCoeff.k \in 2 .. 198
                     /\ w.svfCoeff.co \in (10 * 16) .. (25000 * 16)
                     /\ w.svfCoeff.co = CutoffHz16(key)]_vars

\* coefficients have been computed from a resonance above the range and a
\* cutoff below it
C25_Witness ==
    /\ op.name = "renderBlock"
    /\ patch[pmSVFResonance] = 150
    /\ patch[pmSVFCutoff] = -40
    /\ \E s \in Slots :
          /\ voices[s].active
          /\ voices[s].svfActive
          /\ voices[s].svfCoeff = [co |-> 10 * 16, k |-> 2]

\* C27: the quad filter never steps on a coefficient block of another type
\* than the one installed: the type and the step function are chosen
\* together at start, from the type parameter as it is then, they change at
\* no other time, and in every block in which the quad filter steps the
\* coefficients have been computed before, in that block, for that type.
C27_QuadFilterCoefficients ==
    [][/\ \A s \in Slots :
            (op'.name = "activate" /\ op'.res = s /\ patch[pmLPFActive] # 0
             /\ patch[pmLPFFilterMode] \in 0 .. 5) =>
                /\ voices'[s].qfType = LpfTypeNames[patch[pmLPFFilterMode] + 1]
                /\ voices'[s].qfPtr = voices'[s].qfType
       /\ \A s \in Slots :
            ~(op'.name = "activate" /\ op'.res = s) =>
                /\ voices'[s].qfType = voices[s].qfType
                /\ voices'[s].qfPtr = voices[s].qfPtr
       /\ \A s \in Slots :
            (op'.name = "renderBlock" /\ StagePos(voices'[s], "quadfilter") # 0
             /\ voices[s].active) =>
                /\ voices'[s].qfPtr # "null"
                /\ StagePos(voices'[s], "recalcFilter") # 0
                /\ StagePos(voices'[s], "recalcFilter")
                       < StagePos(voices'[s], "quadfilter")
                /\ voices'[s].qfCoeff.type = voices'[s].qfPtr]_vars

\* a note has rendered its first block through the quad filter, of a type
\* the control context has selected in place of the patch's
C27_Witness ==
    /\ op.name = "renderBlock"
    /\ patch[pmLPFFilterMode] = 1
    /\ \E s \in Slots :
          /\ voices[s].active
          /\ voices[s].aeg = [stage |-> "attack", lvl |-> 1]
          /\ StagePos(voices[s], "quadfilter") # 0
          /\ voices[s].qfCoeff.type = "fut_vintageladder"

(* ------------------------------------------------------------------ *)
(* Properties of the oscillators of a voice                            *)
(* ------------------------------------------------------------------ *)
\* the pitch offset every oscillator of the voice shares
SharedPitch(v) == PitchUnit * v.pitchNoteExpressionValue + 100 * v.pitchBendWheel

\* C23: a start that snapshots a unison count of 1 gives unison voice 0 the
\* detune 0, the pan left = right = 1 and the level normalisation 1, and
\* from then on the frequency of the single saw is the one of the note, the
\* coarse and fine tuning and the shared offset, whatever the spread.
C23_SingleUnisonIgnoresSpread ==
    [][/\ \A s \in Slots :
            (op'.name = "activate" /\ op'.res = s /\ patch[pmSawUnisonCount] = 1) =>
                /\ voices'[s].sawUnison = 1
                /\ voices'[s].sawUniVoiceDetune[0] = 0
                /\ voices'[s].sawUniPan[0] = "centre"
                /\ voices'[s].sawUniLevelNorm[0] = 1
       /\ \A s \in Slots :
            (/\ \/ op'.name = "activate" /\ op'.res = s
                \/ op'.name = "renderBlock" /\ voices[s].active
             /\ voices'[s].sawActive
             /\ voices'[s].sawUnison = 1) =>
                LET w == voices'[s]
                IN  w.sawFreq[0] =
                        w.baseFreq
                        + BendUnit * (patch[pmSawFine] + w.externalMods[pmSawFine])
                        + PitchUnit * (patch[pmSawCoarse] + w.externalMods[pmSawCoarse])
                        + SharedPitch(w)]_vars

\* a single saw has rendered a block under a spread the control context and
\* the host have both moved
C23_Witness ==
    /\ op.name = "renderBlock"
    /\ patch[pmSawUnisonCount] = 1
    /\ \E s \in Slots :
          /\ voices[s].active
          /\ voices[s].sawActive
          /\ voices[s].sawUnison = 1
          /\ voices[s].externalMods[pmSawUnisonSpread] = 40
          /\ voices[s].sawFreq[0] = voices[s].baseFreq

\* C24: no start takes the quotient i / (N - 1) with N - 1 = 0: a count of
\* 1 goes through the branch of its own, and with a count of 0 the loop has
\* no iteration, the geometry is left as it was and the voice renders no
\* saw: the saw adds nothing to the block and no saw frequency is set.
C24_NoZeroDenominator ==
    [][/\ \A s \in Slots :
            (op'.name = "activate" /\ op'.res = s) =>
                /\ \A i \in UniIdx : voices'[s].sawUniPan[i] # "nan"
                /\ patch[pmSawUnisonCount] = 1 => voices'[s].sawUniPan[0] = "centre"
                /\ patch[pmSawUnisonCount] = 0 =>
                       /\ voices'[s].sawUnison = 0
                       /\ voices'[s].sawUniVoiceDetune = voices[s].sawUniVoiceDetune
                       /\ voices'[s].sawUniPan = voices[s].sawUniPan
                       /\ voices'[s].sawUniLevelNorm = voices[s].sawUniLevelNorm
       /\ \A s \in Slots :
            (op'.name = "renderBlock" /\ voices[s].active /\ voices[s].sawUnison = 0) =>
                /\ voices'[s].sawFreq = voices[s].sawFreq
                /\ voices'[s].outputOS =
                       Cardinality({ o \in {"pulse", "sin", "noise"} :
                                         StagePos(voices'[s], o) # 0 })
                       * voices'[s].aegOutputCache]_vars

\* a note started with a unison count of 0 has rendered a block with its saw
\* switched on
C24_Witness ==
    /\ op.name = "renderBlock"
    /\ patch[pmSawUnisonCount] = 0
    /\ \E s \in Slots :
          /\ voices[s].active
          /\ voices[s].sawActive
          /\ voices[s].sawUnison = 0
          /\ voices[s].aegOutputCache > 0
          /\ voices[s].outputOS = 0

\* the index clamp((int)round(octave) + 3, 0, 6) of an octave value
OctaveIndex(x) ==
    LET r == IF x >= 0 THEN (x + 1) \div 2 ELSE -((1 - x) \div 2)
    IN  IF r + 3 < 0 THEN 0 ELSE IF r + 3 > 6 THEN 6 ELSE r + 3

\* C29: the table of the seven octave multipliers is read inside its
\* bounds: whenever the pitch of a pulse or of a sine is computed, the
\* multiplier is the entry of the table at round(octave) + 3 clamped to
\* 0 .. 6, for every octave value, modulated or not.
C29_OctaveIndexClamped ==
    [][\A s \in Slots :
          (\/ op'.name = "activate" /\ op'.res = s
           \/ op'.name = "renderBlock" /\ voices[s].active) =>
              LET w == voices'[s]
                  pOct == patch[pmPWFrequencyDiv] + w.externalMods[pmPWFrequencyDiv]
                  sOct == patch[pmSinFrequencyDiv] + w.externalMods[pmSinFrequencyDiv]
                  pMul == w.pulseFreq - w.baseFreq - SharedPitch(w)
                          - PitchUnit * (patch[pmPWCoarse] + w.externalMods[pmPWCoarse])
                          - BendUnit * (patch[pmPWFine] + w.externalMods[pmPWFine])
                  sMul == w.sinFreq - w.baseFreq - SharedPitch(w)
                          - PitchUnit * (patch[pmSinCoarse] + w.externalMods[pmSinCoarse])
                  Table == [i \in 0 .. 6 |-> (i - 3) * 12 * PitchUnit]
              IN  /\ w.pulseActive =>
                         /\ \E i \in 0 .. 6 : pMul = Table[i]
                         /\ pMul = Table[OctaveIndex(pOct)]
                  /\ w.sinActive =>
                         /\ \E i \in 0 .. 6 : sMul = Table[i]
                         /\ sMul = Table[OctaveIndex(sOct)]]_vars

\* a pulse has been pitched with an octave modulated far above the table,
\* and reads its last entry
C29_Witness ==
    /\ op.name = "renderBlock"
    /\ \E s \in Slots :
          /\ voices[s].active
          /\ voices[s].pulseActive
          /\ voices[s].externalMods[pmPWFrequencyDiv] = 40
          /\ voices[s].pulseFreq = voices[s].baseFreq + 3 * 12 * PitchUnit

(* ------------------------------------------------------------------ *)
(* Properties of the modulation a voice carries                        *)
(* ------------------------------------------------------------------ *)
\* C26: a start leaves nothing of the previous note on the slot: the
\* external-modulation slots, the pitch offset of the note expression and
\* the pitch-bend values of the started voice are all 0.
C26_StartIsNeutral ==
    [][\A s \in Slots :
          (op'.name = "activate" /\ op'.res = s) =>
              /\ \A p \in DOMAIN voices'[s].externalMods : voices'[s].externalMods[p] = 0
              /\ voices'[s].pitchNoteExpressionValue = 0
              /\ voices'[s].pitchBendWheel = 0
              /\ voices'[s].mpePitchBend = 0]_vars

\* C28: applyExternalMod(param, value) on the voices of a note sets their
\* external-modulation slot of param to value and changes nothing else; on
\* a parameter that was never attached it changes nothing and makes no
\* slot; the base values and the voices of other notes are left alone.
C28_ExternalModFrame ==
    [][op'.name = "routeModulation" =>
         LET param == op'.arg[1]
             val == op'.arg[2]
         IN  /\ patch' = patch
             /\ \A s \in Slots :
                  LET v == voices[s]
                      w == voices'[s]
                      addressed == v.active /\ TupleOf(v) = op'.h
                  IN  /\ DOMAIN w.externalMods = DOMAIN v.externalMods
                      /\ w.internalMods = v.internalMods
                      /\ \A p \in DOMAIN v.externalMods :
                            w.externalMods[p] =
                                IF addressed /\ p = param THEN val
                                ELSE v.externalMods[p]
                      /\ [w EXCEPT !.externalMods = v.externalMods] = v]_vars

\* a modulation has arrived for a parameter no voice has attached while a
\* voice of the note sounds with another slot already set
C28_Witness ==
    /\ op.name = "routeModulation"
    /\ op.arg[1] = pmVoicePan
    /\ \E s \in Slots :
          /\ voices[s].active
          /\ TupleOf(voices[s]) = op.h
          /\ pmVoicePan \notin DOMAIN voices[s].externalMods
          /\ voices[s].externalMods[pmSVFCutoff] = 2

\* C30: a pitch-wheel value pb of 0 .. 16383 sets the wheel's bend to
\* 2 * (pb - 8192) / 8192 semitones (kept in 1/8192 semitone), which is 0 at
\* the centre, -2 semitones at 0 and always within [-2, 2), and the
\* oscillators are at the pitch the voice's inputs call for when the setter
\* returns; an MPE channel bend stores (pb - 8192) / 8192 in its own field
\* and leaves the wheel's bend alone.
C30_PitchBendScaling ==
    [][/\ op'.name = "routePitchBend" =>
            \A s \in Slots :
                (voices[s].active /\ TupleOf(voices[s]) = op'.h) =>
                    LET w == voices'[s]
                        pb == op'.arg[1]
                    IN  /\ w.pitchBendWheel = 2 * (pb - 8192)
                        /\ w.pitchBendWheel >= -2 * 8192
                        /\ w.pitchBendWheel < 2 * 8192
                        /\ pb = 8192 => w.pitchBendWheel = 0
                        /\ pb = 0 => w.pitchBendWheel = -2 * 8192
                        /\ w.mpePitchBend = voices[s].mpePitchBend
                        /\ w.sawActive =>
                               \A i \in UniIdx : i < w.sawUnison =>
                                   w.sawFreq[i] =
                                       w.baseFreq
                                       + BendUnit * (valueIn(patch, w, pmSawUnisonSpread)
                                                         * w.sawUniVoiceDetune[i]
                                                     + valueIn(patch, w, pmSawFine))
                                       + PitchUnit * valueIn(patch, w, pmSawCoarse)
                                       + PitchUnit * w.pitchNoteExpressionValue
                                       + 100 * w.pitchBendWheel
       /\ op'.name = "routeChannelPitchBend" =>
            \A s \in Slots :
                (voices[s].active /\ TupleOf(voices[s]) = op'.h) =>
                    /\ voices'[s].mpePitchBend = op'.arg[1] - 8192
                    /\ voices'[s].pitchBendWheel = voices[s].pitchBendWheel]_vars

\* the wheel has been bent to the top of its range on a sounding voice
\* whose MPE bend is at the bottom of its own
C30_Witness ==
    /\ op.name = "routePitchBend"
    /\ op.arg[1] = 16383
    /\ \E s \in Slots :
          /\ voices[s].active
          /\ TupleOf(voices[s]) = op.h
          /\ voices[s].pitchBendWheel = 16382
          /\ voices[s].mpePitchBend = -8192

====
